---- MODULE Spec2Model ----
(***************************************************************************)
(* Model of the NL5_dll client (src/nl5_dll.py): a Python class that wraps *)
(* the exported entry points NL5_* of the NL5 circuit simulation engine.   *)
(*                                                                         *)
(* The client is synchronous and single threaded, so every public method   *)
(* is one atomic action.  The state is the client's document handle        *)
(* (_ncir), the documents the engine holds open, the engine's last error,  *)
(* and the last public call: its arguments, the foreign calls it made, in  *)
(* order, with their arguments and statuses, and how it ended (the         *)
(* exception raised or the value returned).                                *)
(*                                                                         *)
(* The engine itself is a closed native library; the operators named       *)
(* NL5_* model what it answers, from the docstrings of the wrapper and the *)
(* data model of the specification.                                        *)
(***************************************************************************)
EXTENDS Integers, Sequences, FiniteSets, TLC

VARIABLES ncir, docs, error, argv, last

vars == <<ncir, docs, error, argv, last>>

----------------------------------------------------------------------------
(* Bounds of the model *)

\* handles the engine hands out are 0..MaxHandle
MaxHandle == 0
\* parameter values (doubles) range over -MaxValue..MaxValue
MaxValue == 1
\* the simulation clock runs from 0 to MaxClock, one sample per unit of time
MaxClock == 1
\* number of points of an AC sweep
ACPoints == 2

Handles == 0..MaxHandle
Values == (0 - MaxValue)..MaxValue
Times == 0..MaxClock

----------------------------------------------------------------------------
(* Strings are sequences of characters *)

Ext_nl5 == <<".", "n", "l", "5">>
Ext_nll == <<".", "n", "l", "l">>
Ext_nlt == <<".", "n", "l", "t">>
Ext_nlf == <<".", "n", "l", "f">>

\* str.endswith
endswith(s, suf) ==
    /\ Len(s) >= Len(suf)
    /\ SubSeq(s, Len(s) - Len(suf) + 1, Len(s)) = suf

\* os.getcwd(): the working directory of the process
getcwd == <<"/", "w">>

\* os.path.join(path, name) for a relative name
join(path, name) == path \o <<"/">> \o name

\* os.path.abspath(path) for a relative path
abspath(path) == join(getcwd, path)

\* `if path: path = os.path.abspath(path) else: path = os.getcwd()`
resolve(path) == IF path # <<>> THEN abspath(path) ELSE getcwd

\* a normalization that appends the extension to every name
with_ext_always(name, ext) == name \o ext

\* `if not name.endswith(ext): name = f'{name}{ext}'`
with_ext(name, ext) == IF ~endswith(name, ext) THEN name \o ext ELSE name

\* the one circuit file that exists on disk
CircuitFile == join(getcwd, <<"c">> \o Ext_nl5)

----------------------------------------------------------------------------
(* The engine: documents *)

\* names that resolve in a freshly opened document
ParamName == "R1.R"
TraceName == "V(out)"
InputName == "IN"
OutputName == "OUT"
\* a name that resolves to nothing
NoName == "nope"

\* the document as loaded from the circuit file: the value of R1.R, the
\* transient traces, the times of the recorded transient samples, and the
\* number of recorded AC points
NewDoc == [val |-> MaxValue, traces |-> {TraceName}, data |-> <<>>, ac |-> 0]

IsDoc(D, h) == h \in DOMAIN D

Without(D, h) == [k \in DOMAIN D \ {h} |-> D[k]]
With(D, h, d) == [k \in DOMAIN D \cup {h} |-> IF k = h THEN d ELSE D[k]]

\* the engine's answer to one call: status, documents afterwards, values written
\* through the out-parameters
Answer(st, D, out) == [st |-> st, docs |-> D, out |-> out]

\* A foreign call as recorded: the entry point, the arguments it received,
\* the status and the values it returned, and (for the properties only) the
\* handles that were open in the engine when it was made.
Call(fn, args, r, D) ==
    [fn |-> fn, args |-> args, st |-> r.st, out |-> r.out, live |-> DOMAIN D]

\* NL5_Open(name): a handle that is not in use if the file is a circuit file
\* the engine can load (w, the engine's choice), a negative status otherwise
NL5_Open(D, file, w) ==
    IF file = CircuitFile /\ w \in Handles \ DOMAIN D
    THEN Answer(w, With(D, w, NewDoc), <<>>)
    ELSE Answer(-1, D, <<>>)

\* NL5_Close(ncir): releases the document; an error for a handle that is not
\* the handle of an open document
NL5_Close(D, h) ==
    IF IsDoc(D, h) THEN Answer(0, Without(D, h), <<>>) ELSE Answer(-1, D, <<>>)

\* NL5_Save(ncir), NL5_SaveAs(ncir, name): writing the file may fail (ok is
\* the engine's choice); the document stays as it is
NL5_Save(D, h, ok) ==
    IF IsDoc(D, h) /\ ok THEN Answer(0, D, <<>>) ELSE Answer(-1, D, <<>>)

NL5_SaveAs(D, h, file, ok) ==
    IF IsDoc(D, h) /\ ok THEN Answer(0, D, <<>>) ELSE Answer(-1, D, <<>>)

\* Text of a parameter of formula type: the formula "=v".  NL5_GetText and
\* NL5_GetParamText copy at most length-1 characters into the caller's buffer.
text_of(v) == <<"=", v>>
is_formula(text) == Len(text) = 2 /\ text[1] = "=" /\ text[2] \in Values
truncated(text, length) ==
    IF Len(text) < length THEN text ELSE SubSeq(text, 1, length - 1)

\* NL5_GetValue / NL5_SetValue / NL5_GetText / NL5_SetText(ncir, name, ...):
\* a negative status when the parameter is not found (or its type is not
\* supported); for a parameter of formula type the value is a double
NL5_GetValue(D, h, name) ==
    IF IsDoc(D, h) /\ name = ParamName
    THEN Answer(0, D, <<D[h].val>>) ELSE Answer(-1, D, <<>>)

NL5_SetValue(D, h, name, v) ==
    IF IsDoc(D, h) /\ name = ParamName
    THEN Answer(0, With(D, h, [D[h] EXCEPT !.val = v]), <<>>) ELSE Answer(-1, D, <<>>)

NL5_GetText(D, h, name, length) ==
    IF IsDoc(D, h) /\ name = ParamName
    THEN Answer(0, D, <<truncated(text_of(D[h].val), length)>>) ELSE Answer(-1, D, <<>>)

NL5_SetText(D, h, name, text) ==
    IF IsDoc(D, h) /\ name = ParamName /\ is_formula(text)
    THEN Answer(0, With(D, h, [D[h] EXCEPT !.val = text[2]]), <<>>) ELSE Answer(-1, D, <<>>)

\* NL5_GetParam(ncir, name): the handle of the parameter (0 for R1.R), negative
\* when the document has no such parameter
NL5_GetParam(D, h, name) ==
    IF IsDoc(D, h) /\ name = ParamName THEN Answer(0, D, <<>>) ELSE Answer(-1, D, <<>>)

\* NL5_GetParamValue / SetParamValue / GetParamText / SetParamText(ncir, npar, ...)
NL5_GetParamValue(D, h, npar) ==
    IF IsDoc(D, h) /\ npar = 0
    THEN Answer(0, D, <<D[h].val>>) ELSE Answer(-1, D, <<>>)

NL5_SetParamValue(D, h, npar, v) ==
    IF IsDoc(D, h) /\ npar = 0
    THEN Answer(0, With(D, h, [D[h] EXCEPT !.val = v]), <<>>) ELSE Answer(-1, D, <<>>)

NL5_GetParamText(D, h, npar, length) ==
    IF IsDoc(D, h) /\ npar = 0
    THEN Answer(0, D, <<truncated(text_of(D[h].val), length)>>) ELSE Answer(-1, D, <<>>)

NL5_SetParamText(D, h, npar, text) ==
    IF IsDoc(D, h) /\ npar = 0 /\ is_formula(text)
    THEN Answer(0, With(D, h, [D[h] EXCEPT !.val = text[2]]), <<>>) ELSE Answer(-1, D, <<>>)

\* NL5_AddVTrace / AddITrace / AddPTrace / AddVarTrace / AddFuncTrace(ncir, name):
\* creates the trace and returns its handle when the engine accepts the name
\* (ok, the engine's choice), a negative status otherwise
NL5_AddTrace(D, h, name, ok) ==
    IF IsDoc(D, h) /\ name = TraceName /\ ok
    THEN Answer(0, With(D, h, [D[h] EXCEPT !.traces = @ \cup {name}]), <<>>)
    ELSE Answer(-1, D, <<>>)

\* NL5_GetTrace(ncir, name): the handle of the transient trace (0 for V(out)),
\* negative when the document has no such trace
NL5_GetTrace(D, h, name) ==
    IF IsDoc(D, h) /\ name \in D[h].traces THEN Answer(0, D, <<>>) ELSE Answer(-1, D, <<>>)

\* NL5_DeleteTrace(ncir, ntrace): the engine may refuse (ok is its choice)
NL5_DeleteTrace(D, h, ntrace, ok) ==
    IF IsDoc(D, h) /\ ntrace = 0 /\ TraceName \in D[h].traces /\ ok
    THEN Answer(0, With(D, h, [D[h] EXCEPT !.traces = @ \ {TraceName}]), <<>>)
    ELSE Answer(-1, D, <<>>)

\* NL5_GetInput / NL5_GetOutput(ncir, name): the handle of the input or output
NL5_GetInput(D, h, name) ==
    IF IsDoc(D, h) /\ name = InputName THEN Answer(0, D, <<>>) ELSE Answer(-1, D, <<>>)

NL5_GetOutput(D, h, name) ==
    IF IsDoc(D, h) /\ name = OutputName THEN Answer(0, D, <<>>) ELSE Answer(-1, D, <<>>)

\* NL5_SetInputValue(ncir, nin, v), NL5_SetInputLogicalValue(ncir, nin, i)
NL5_SetInputValue(D, h, nin, v) ==
    IF IsDoc(D, h) /\ nin = 0 THEN Answer(0, D, <<>>) ELSE Answer(-1, D, <<>>)

NL5_SetInputLogicalValue(D, h, nin, i) ==
    IF IsDoc(D, h) /\ nin = 0 THEN Answer(0, D, <<>>) ELSE Answer(-1, D, <<>>)

\* NL5_GetOutputValue(ncir, nout, v): the voltage of the output
NL5_GetOutputValue(D, h, nout) ==
    IF IsDoc(D, h) /\ nout = 0 THEN Answer(0, D, <<D[h].val>>) ELSE Answer(-1, D, <<>>)

\* The transient record of a document: data holds the times of the recorded
\* samples, in increasing order; the clock is the time of the last one.
clock(d) == IF d.data = <<>> THEN 0 ELSE d.data[Len(d.data)]

\* the value the trace V(out) has at time t
wave(t) == 100 + t

\* the times t0+1 .. t1
RECURSIVE steps(_, _)
steps(t0, t1) == IF t1 <= t0 THEN <<>> ELSE Append(steps(t0, t1 - 1), t1)

\* "The function resets internal simulation_time variable to 0, ... erases
\* existing simulation data ... the simulation data consists of circuit state
\* at t=0."
started(d) == [d EXCEPT !.data = <<0>>]

\* "It will be executed automatically if any of simulation functions is
\* called, and simulation has not been performed yet."
running(d) == IF d.data = <<>> THEN started(d) ELSE d

\* the simulation advanced by `interval`, one sample per unit of time
advanced(d, interval) ==
    LET e == running(d) IN [e EXCEPT !.data = @ \o steps(clock(e), clock(e) + interval)]

\* NL5_SetStep(ncir, step), NL5_SetTimeout(ncir, t): ok is the engine's choice
NL5_SetStep(D, h, step, ok) ==
    IF IsDoc(D, h) /\ ok THEN Answer(0, D, <<>>) ELSE Answer(-1, D, <<>>)

NL5_SetTimeout(D, h, t, ok) ==
    IF IsDoc(D, h) /\ ok THEN Answer(0, D, <<>>) ELSE Answer(-1, D, <<>>)

\* NL5_GetSimulationTime(ncir, t)
NL5_GetSimulationTime(D, h) ==
    IF IsDoc(D, h) THEN Answer(0, D, <<clock(D[h])>>) ELSE Answer(-1, D, <<>>)

\* NL5_Start(ncir): "may return error code" (ok is the engine's choice)
NL5_Start(D, h, ok) ==
    IF IsDoc(D, h) /\ ok
    THEN Answer(0, With(D, h, started(D[h])), <<>>) ELSE Answer(-1, D, <<>>)

\* NL5_Simulate(ncir, interval), NL5_SimulateInterval(ncir, interval),
\* NL5_SimulateStep(ncir): "may return error code"
NL5_Simulate(D, h, interval, ok) ==
    IF IsDoc(D, h) /\ ok /\ interval >= 0
    THEN Answer(0, With(D, h, advanced(D[h], interval)), <<>>) ELSE Answer(-1, D, <<>>)

NL5_SimulateInterval(D, h, interval, ok) ==
    IF IsDoc(D, h) /\ ok /\ interval >= 0
    THEN Answer(0, With(D, h, advanced(D[h], interval)), <<>>) ELSE Answer(-1, D, <<>>)

NL5_SimulateStep(D, h, ok) ==
    IF IsDoc(D, h) /\ ok
    THEN Answer(0, With(D, h, advanced(D[h], 1)), <<>>) ELSE Answer(-1, D, <<>>)

\* NL5_SaveIC(ncir)
NL5_SaveIC(D, h, ok) ==
    IF IsDoc(D, h) /\ ok THEN Answer(0, D, <<>>) ELSE Answer(-1, D, <<>>)

\* NL5_DeleteOldData(ncir): "Deletes all transient data except the last data point."
NL5_DeleteOldData(D, h, ok) ==
    IF IsDoc(D, h) /\ ok
    THEN Answer(0, With(D, h, [D[h] EXCEPT
                    !.data = IF @ = <<>> THEN @ ELSE << @[Len(@)] >>]), <<>>)
    ELSE Answer(-1, D, <<>>)

\* NL5_SaveData(ncir, name), NL5_SaveACData(ncir, name)
NL5_SaveData(D, h, file, ok) ==
    IF IsDoc(D, h) /\ ok THEN Answer(0, D, <<>>) ELSE Answer(-1, D, <<>>)

NL5_SaveACData(D, h, file, ok) ==
    IF IsDoc(D, h) /\ ok THEN Answer(0, D, <<>>) ELSE Answer(-1, D, <<>>)

has_trace(D, h, ntrace) == IsDoc(D, h) /\ ntrace = 0 /\ TraceName \in D[h].traces

\* NL5_GetData(ncir, ntrace, t, data): the value at time t, when t lies within
\* the recorded data
NL5_GetData(D, h, ntrace, t) ==
    IF has_trace(D, h, ntrace) /\ D[h].data # <<>> /\ D[h].data[1] <= t /\ t <= clock(D[h])
    THEN Answer(0, D, <<wave(t)>>) ELSE Answer(-1, D, <<>>)

\* NL5_GetLastData(ncir, ntrace, t, data)
NL5_GetLastData(D, h, ntrace) ==
    IF has_trace(D, h, ntrace) /\ D[h].data # <<>>
    THEN Answer(0, D, <<clock(D[h]), wave(clock(D[h]))>>) ELSE Answer(-1, D, <<>>)

\* NL5_GetDataAt(ncir, ntrace, n, t, data): "Data index is zero-based."; an error
\* when the "Index is less than zero, or greater or equal to data size."
NL5_GetDataAt(D, h, ntrace, n) ==
    IF has_trace(D, h, ntrace) /\ 0 <= n /\ n < Len(D[h].data)
    THEN Answer(0, D, <<D[h].data[n + 1], wave(D[h].data[n + 1])>>) ELSE Answer(-1, D, <<>>)

\* NL5_GetDataSize(ncir, ntrace): the number of data points, as the status
NL5_GetDataSize(D, h, ntrace) ==
    IF has_trace(D, h, ntrace) THEN Answer(Len(D[h].data), D, <<>>) ELSE Answer(-1, D, <<>>)

\* NL5_CalcAC(ncir)
NL5_CalcAC(D, h, ok) ==
    IF IsDoc(D, h) /\ ok
    THEN Answer(0, With(D, h, [D[h] EXCEPT !.ac = ACPoints]), <<>>) ELSE Answer(-1, D, <<>>)

\* NL5_GetACTrace(ncir, name): AC traces have handles of their own
NL5_GetACTrace(D, h, name) ==
    IF IsDoc(D, h) /\ name = TraceName THEN Answer(0, D, <<>>) ELSE Answer(-1, D, <<>>)

NL5_GetACDataSize(D, h, ntrace) ==
    IF IsDoc(D, h) /\ ntrace = 0 THEN Answer(D[h].ac, D, <<>>) ELSE Answer(-1, D, <<>>)

\* the n-th point of the AC sweep: frequency, magnitude, phase
RECURSIVE pow10(_)
pow10(n) == IF n <= 0 THEN 1 ELSE 10 * pow10(n - 1)

ac_point(n) == <<pow10(n + 1), pow10(n), 0 - n>>

NL5_GetACDataAt(D, h, ntrace, n) ==
    IF IsDoc(D, h) /\ ntrace = 0 /\ 0 <= n /\ n < D[h].ac
    THEN Answer(0, D, ac_point(n)) ELSE Answer(-1, D, <<>>)

\* NL5_GetLicense(name): negative when the license is rejected, 0 when it is
\* valid, positive when there is none (w is the engine's choice)
NL5_GetLicense(file, w) == w

----------------------------------------------------------------------------
(* The client: how a public call ends *)

NoException == "none"

\* a test that also takes -1 for the handle of a document
has_document_any(h) == h >= 0 - 1

\* `if self._ncir >= 0:` the test every per-document method starts with
has_document(h) == h >= 0

\* a test that lets the status -1 pass
failed_below(retval) == retval < 0 - 1

\* `if retval < 0:` the test made on the status of a foreign call
failed(retval) == retval < 0

Raise(op, calls, exc) ==
    [op |-> op, h0 |-> ncir, calls |-> calls, exc |-> exc, ret |-> <<>>]

Return(op, calls, ret) ==
    [op |-> op, h0 |-> ncir, calls |-> calls, exc |-> NoException, ret |-> ret]

\* the engine's last error after the calls: "OK", or the entry point that failed
ErrorAfter(calls) ==
    IF calls = <<>> THEN error
    ELSE LET c == calls[Len(calls)] IN IF c.st < 0 THEN c.fn ELSE "OK"

\* the public call ended with `res`, leaving the engine's documents as D
Finish(res, D) ==
    /\ last' = res
    /\ docs' = D
    /\ error' = ErrorAfter(res.calls)

NotOpened(op) == Finish(Raise(op, <<>>, "NL5OpenException"), docs)

----------------------------------------------------------------------------
(* The client: life cycle *)

Init ==
    /\ ncir = -1
    /\ docs = [h \in {} |-> NewDoc]
    /\ error = "OK"
    /\ argv = <<>>
    /\ last = [op |-> "__init__", h0 |-> -1, calls |-> <<>>,
               exc |-> NoException, ret |-> <<>>]

\* an open that does not close the document the client holds
open_no_close(name, path, w) ==
    LET cir_file == join(resolve(path), with_ext(name, Ext_nl5))
        o == NL5_Open(docs, cir_file, w)
        calls == << Call("NL5_Open", <<cir_file>>, o, docs) >>
    IN  /\ argv' = <<name, path>>
        /\ IF o.st >= 0
           THEN /\ ncir' = o.st
                /\ Finish(Return("open", calls, <<>>), o.docs)
           ELSE /\ ncir' = -1
                /\ Finish(Raise("open", calls, "NL5OpenException"), o.docs)

\* an open that keeps the handle it had when the engine cannot load the file
open_keep(name, path, w) ==
    LET closing == has_document(ncir)
        c1 == NL5_Close(docs, ncir)
        D1 == IF closing THEN c1.docs ELSE docs
        pre == IF closing THEN << Call("NL5_Close", <<ncir>>, c1, docs) >> ELSE <<>>
        cir_file == join(resolve(path), with_ext(name, Ext_nl5))
        o == NL5_Open(D1, cir_file, w)
        calls == pre \o << Call("NL5_Open", <<cir_file>>, o, D1) >>
    IN  /\ argv' = <<name, path>>
        /\ IF o.st >= 0
           THEN /\ ncir' = o.st
                /\ Finish(Return("open", calls, <<>>), o.docs)
           ELSE /\ ncir' = ncir
                /\ Finish(Raise("open", calls, "NL5OpenException"), o.docs)

\* NL5_dll.open(name, path)
open(name, path, w) ==
    LET closing == has_document(ncir)
        c1 == NL5_Close(docs, ncir)
        D1 == IF closing THEN c1.docs ELSE docs
        pre == IF closing THEN << Call("NL5_Close", <<ncir>>, c1, docs) >> ELSE <<>>
        cir_file == join(resolve(path), with_ext(name, Ext_nl5))
        o == NL5_Open(D1, cir_file, w)
        calls == pre \o << Call("NL5_Open", <<cir_file>>, o, D1) >>
    IN  /\ argv' = <<name, path>>
        /\ IF o.st >= 0
           THEN /\ ncir' = o.st
                /\ Finish(Return("open", calls, <<>>), o.docs)
           ELSE /\ ncir' = -1
                /\ Finish(Raise("open", calls, "NL5OpenException"), o.docs)

\* NL5_dll.close()
close ==
    /\ argv' = <<>>
    /\ ncir' = ncir
    /\ IF has_document(ncir)
       THEN LET c == NL5_Close(docs, ncir) IN
            Finish(Return("close", << Call("NL5_Close", <<ncir>>, c, docs) >>, <<>>),
                   c.docs)
       ELSE NotOpened("close")

\* a save that reads the clock after a failure, before it raises
save_then_probe(ok) ==
    /\ argv' = <<>>
    /\ ncir' = ncir
    /\ IF has_document(ncir)
       THEN LET r == NL5_Save(docs, ncir, ok)
                c1 == Call("NL5_Save", <<ncir>>, r, docs)
                q == NL5_GetSimulationTime(r.docs, ncir)
                c2 == Call("NL5_GetSimulationTime", <<ncir>>, q, r.docs)
            IN  IF failed(r.st)
                THEN Finish(Raise("save", <<c1, c2>>, "NL5SaveException"), r.docs)
                ELSE Finish(Return("save", <<c1>>, <<>>), r.docs)
       ELSE NotOpened("save")

\* NL5_dll.save()
save(ok) ==
    /\ argv' = <<>>
    /\ ncir' = ncir
    /\ IF has_document(ncir)
       THEN LET r == NL5_Save(docs, ncir, ok)
                calls == << Call("NL5_Save", <<ncir>>, r, docs) >>
            IN  IF failed(r.st)
                THEN Finish(Raise("save", calls, "NL5SaveException"), r.docs)
                ELSE Finish(Return("save", calls, <<>>), r.docs)
       ELSE NotOpened("save")

\* a save_as that returns normally when the engine could not write the file
save_as_quiet(name, path, ok) ==
    LET cir_file == join(resolve(path), with_ext(name, Ext_nl5)) IN
    /\ argv' = <<name, path>>
    /\ ncir' = ncir
    /\ IF has_document(ncir)
       THEN LET r == NL5_SaveAs(docs, ncir, cir_file, ok)
                calls == << Call("NL5_SaveAs", <<ncir, cir_file>>, r, docs) >>
            IN  Finish(Return("save_as", calls, <<>>), r.docs)
       ELSE NotOpened("save_as")

\* NL5_dll.save_as(name, path)
save_as(name, path, ok) ==
    LET cir_file == join(resolve(path), with_ext(name, Ext_nl5)) IN
    /\ argv' = <<name, path>>
    /\ ncir' = ncir
    /\ IF has_document(ncir)
       THEN LET r == NL5_SaveAs(docs, ncir, cir_file, ok)
                calls == << Call("NL5_SaveAs", <<ncir, cir_file>>, r, docs) >>
            IN  IF failed(r.st)
                THEN Finish(Raise("save_as", calls, "NL5SaveException"), r.docs)
                ELSE Finish(Return("save_as", calls, <<>>), r.docs)
       ELSE NotOpened("save_as")

----------------------------------------------------------------------------
(* The client: component parameters *)

\* `buf_size:int=256`, the default size of the text buffer
DefaultBufSize == 256

\* a get_value that gives up its document when the engine reports an error
get_value_reset(name) ==
    /\ argv' = <<name>>
    /\ IF has_document(ncir)
       THEN LET r == NL5_GetValue(docs, ncir, name)
                calls == << Call("NL5_GetValue", <<ncir, name>>, r, docs) >>
            IN  IF failed(r.st)
                THEN /\ ncir' = 0 - 1
                     /\ Finish(Raise("get_value", calls, "NL5ValueException"), r.docs)
                ELSE /\ ncir' = ncir
                     /\ Finish(Return("get_value", calls, r.out), r.docs)
       ELSE /\ ncir' = ncir
            /\ NotOpened("get_value")

\* NL5_dll.get_value
get_value(name) ==
    /\ argv' = <<name>>
    /\ ncir' = ncir
    /\ IF has_document(ncir)
       THEN LET r == NL5_GetValue(docs, ncir, name)
                calls == << Call("NL5_GetValue", <<ncir, name>>, r, docs) >>
            IN  IF failed(r.st)
                THEN Finish(Raise("get_value", calls, "NL5ValueException"), r.docs)
                ELSE Finish(Return("get_value", calls, r.out), r.docs)
       ELSE NotOpened("get_value")

\* a set_value that hands the magnitude of v to the engine
set_value_abs(name, v) ==
    LET m == IF v < 0 THEN 0 - v ELSE v IN
    /\ argv' = <<name, v>>
    /\ ncir' = ncir
    /\ IF has_document(ncir)
       THEN LET r == NL5_SetValue(docs, ncir, name, m)
                calls == << Call("NL5_SetValue", <<ncir, name, m>>, r, docs) >>
            IN  IF failed(r.st)
                THEN Finish(Raise("set_value", calls, "NL5ValueException"), r.docs)
                ELSE Finish(Return("set_value", calls, <<>>), r.docs)
       ELSE NotOpened("set_value")

\* NL5_dll.set_value
set_value(name, v) ==
    /\ argv' = <<name, v>>
    /\ ncir' = ncir
    /\ IF has_document(ncir)
       THEN LET r == NL5_SetValue(docs, ncir, name, v)
                calls == << Call("NL5_SetValue", <<ncir, name, v>>, r, docs) >>
            IN  IF failed(r.st)
                THEN Finish(Raise("set_value", calls, "NL5ValueException"), r.docs)
                ELSE Finish(Return("set_value", calls, <<>>), r.docs)
       ELSE NotOpened("set_value")

\* NL5_dll.get_text
get_text(name, buf_size) ==
    /\ argv' = <<name, buf_size>>
    /\ ncir' = ncir
    /\ IF has_document(ncir)
       THEN LET r == NL5_GetText(docs, ncir, name, buf_size)
                calls == << Call("NL5_GetText", <<ncir, name, buf_size>>, r, docs) >>
            IN  IF failed(r.st)
                THEN Finish(Raise("get_text", calls, "NL5ValueException"), r.docs)
                ELSE Finish(Return("get_text", calls, r.out), r.docs)
       ELSE NotOpened("get_text")

\* NL5_dll.set_text
set_text(name, text) ==
    /\ argv' = <<name, text>>
    /\ ncir' = ncir
    /\ IF has_document(ncir)
       THEN LET r == NL5_SetText(docs, ncir, name, text)
                calls == << Call("NL5_SetText", <<ncir, name, text>>, r, docs) >>
            IN  IF failed(r.st)
                THEN Finish(Raise("set_text", calls, "NL5ValueException"), r.docs)
                ELSE Finish(Return("set_text", calls, <<>>), r.docs)
       ELSE NotOpened("set_text")

\* a get_parameter_value that keeps the handle of the parameter it resolved once
get_parameter_value_cached(name) ==
    /\ argv' = <<name>>
    /\ ncir' = ncir
    /\ IF has_document(ncir)
       THEN LET npar == 0
                r == NL5_GetParamValue(docs, ncir, npar)
                c2 == Call("NL5_GetParamValue", <<ncir, npar>>, r, docs)
            IN  IF failed(r.st)
                THEN Finish(Raise("get_parameter_value", <<c2>>, "NL5ValueException"), r.docs)
                ELSE Finish(Return("get_parameter_value", <<c2>>, r.out), r.docs)
       ELSE NotOpened("get_parameter_value")

\* NL5_dll.get_parameter_value
get_parameter_value(name) ==
    /\ argv' = <<name>>
    /\ ncir' = ncir
    /\ IF has_document(ncir)
       THEN LET p == NL5_GetParam(docs, ncir, name)
                npar == p.st
                c1 == Call("NL5_GetParam", <<ncir, name>>, p, docs)
                r == NL5_GetParamValue(p.docs, ncir, npar)
                c2 == Call("NL5_GetParamValue", <<ncir, npar>>, r, p.docs)
            IN  IF npar >= 0
                THEN IF failed(r.st)
                     THEN Finish(Raise("get_parameter_value", <<c1, c2>>, "NL5ValueException"), r.docs)
                     ELSE Finish(Return("get_parameter_value", <<c1, c2>>, r.out), r.docs)
                ELSE Finish(Raise("get_parameter_value", <<c1>>, "NL5ParamException"), p.docs)
       ELSE NotOpened("get_parameter_value")

\* NL5_dll.set_parameter_value
set_parameter_value(name, v) ==
    /\ argv' = <<name, v>>
    /\ ncir' = ncir
    /\ IF has_document(ncir)
       THEN LET p == NL5_GetParam(docs, ncir, name)
                npar == p.st
                c1 == Call("NL5_GetParam", <<ncir, name>>, p, docs)
                r == NL5_SetParamValue(p.docs, ncir, npar, v)
                c2 == Call("NL5_SetParamValue", <<ncir, npar, v>>, r, p.docs)
            IN  IF npar >= 0
                THEN IF failed(r.st)
                     THEN Finish(Raise("set_parameter_value", <<c1, c2>>, "NL5ValueException"), r.docs)
                     ELSE Finish(Return("set_parameter_value", <<c1, c2>>, <<>>), r.docs)
                ELSE Finish(Raise("set_parameter_value", <<c1>>, "NL5ParamException"), p.docs)
       ELSE NotOpened("set_parameter_value")

\* NL5_dll.get_parameter_text
get_parameter_text(name, buf_size) ==
    /\ argv' = <<name, buf_size>>
    /\ ncir' = ncir
    /\ IF has_document(ncir)
       THEN LET p == NL5_GetParam(docs, ncir, name)
                npar == p.st
                c1 == Call("NL5_GetParam", <<ncir, name>>, p, docs)
                r == NL5_GetParamText(p.docs, ncir, npar, buf_size)
                c2 == Call("NL5_GetParamText", <<ncir, npar, buf_size>>, r, p.docs)
            IN  IF npar >= 0
                THEN IF failed(r.st)
                     THEN Finish(Raise("get_parameter_text", <<c1, c2>>, "NL5ValueException"), r.docs)
                     ELSE Finish(Return("get_parameter_text", <<c1, c2>>, r.out), r.docs)
                ELSE Finish(Raise("get_parameter_text", <<c1>>, "NL5ParamException"), p.docs)
       ELSE NotOpened("get_parameter_text")

\* NL5_dll.set_parameter_text
set_parameter_text(name, text) ==
    /\ argv' = <<name, text>>
    /\ ncir' = ncir
    /\ IF has_document(ncir)
       THEN LET p == NL5_GetParam(docs, ncir, name)
                npar == p.st
                c1 == Call("NL5_GetParam", <<ncir, name>>, p, docs)
                r == NL5_SetParamText(p.docs, ncir, npar, text)
                c2 == Call("NL5_SetParamText", <<ncir, npar, text>>, r, p.docs)
            IN  IF npar >= 0
                THEN IF failed(r.st)
                     THEN Finish(Raise("set_parameter_text", <<c1, c2>>, "NL5ValueException"), r.docs)
                     ELSE Finish(Return("set_parameter_text", <<c1, c2>>, <<>>), r.docs)
                ELSE Finish(Raise("set_parameter_text", <<c1>>, "NL5ParamException"), p.docs)
       ELSE NotOpened("set_parameter_text")

----------------------------------------------------------------------------
(* The client: traces, inputs and outputs *)

\* NL5_dll.add_voltage_trace
add_voltage_trace(name, ok) ==
    /\ argv' = <<name>>
    /\ ncir' = ncir
    /\ IF has_document(ncir)
       THEN LET r == NL5_AddTrace(docs, ncir, name, ok)
                calls == << Call("NL5_AddVTrace", <<ncir, name>>, r, docs) >>
            IN  IF failed(r.st)
                THEN Finish(Raise("add_voltage_trace", calls, "NL5TraceException"), r.docs)
                ELSE Finish(Return("add_voltage_trace", calls, <<>>), r.docs)
       ELSE NotOpened("add_voltage_trace")

\* NL5_dll.add_current_trace
add_current_trace(name, ok) ==
    /\ argv' = <<name>>
    /\ ncir' = ncir
    /\ IF has_document(ncir)
       THEN LET r == NL5_AddTrace(docs, ncir, name, ok)
                calls == << Call("NL5_AddITrace", <<ncir, name>>, r, docs) >>
            IN  IF failed(r.st)
                THEN Finish(Raise("add_current_trace", calls, "NL5TraceException"), r.docs)
                ELSE Finish(Return("add_current_trace", calls, <<>>), r.docs)
       ELSE NotOpened("add_current_trace")

\* NL5_dll.add_power_trace
add_power_trace(name, ok) ==
    /\ argv' = <<name>>
    /\ ncir' = ncir
    /\ IF has_document(ncir)
       THEN LET r == NL5_AddTrace(docs, ncir, name, ok)
                calls == << Call("NL5_AddPTrace", <<ncir, name>>, r, docs) >>
            IN  IF failed(r.st)
                THEN Finish(Raise("add_power_trace", calls, "NL5TraceException"), r.docs)
                ELSE Finish(Return("add_power_trace", calls, <<>>), r.docs)
       ELSE NotOpened("add_power_trace")

\* NL5_dll.add_variable_trace
add_variable_trace(name, ok) ==
    /\ argv' = <<name>>
    /\ ncir' = ncir
    /\ IF has_document(ncir)
       THEN LET r == NL5_AddTrace(docs, ncir, name, ok)
                calls == << Call("NL5_AddVarTrace", <<ncir, name>>, r, docs) >>
            IN  IF failed(r.st)
                THEN Finish(Raise("add_variable_trace", calls, "NL5TraceException"), r.docs)
                ELSE Finish(Return("add_variable_trace", calls, <<>>), r.docs)
       ELSE NotOpened("add_variable_trace")

\* NL5_dll.add_function_trace
add_function_trace(text, ok) ==
    /\ argv' = <<text>>
    /\ ncir' = ncir
    /\ IF has_document(ncir)
       THEN LET r == NL5_AddTrace(docs, ncir, text, ok)
                calls == << Call("NL5_AddFuncTrace", <<ncir, text>>, r, docs) >>
            IN  IF failed(r.st)
                THEN Finish(Raise("add_function_trace", calls, "NL5TraceException"), r.docs)
                ELSE Finish(Return("add_function_trace", calls, <<>>), r.docs)
       ELSE NotOpened("add_function_trace")

\* NL5_dll.delete_trace
delete_trace(name, ok) ==
    /\ argv' = <<name>>
    /\ ncir' = ncir
    /\ IF has_document(ncir)
       THEN LET p == NL5_GetTrace(docs, ncir, name)
                ntrace == p.st
                c1 == Call("NL5_GetTrace", <<ncir, name>>, p, docs)
                r == NL5_DeleteTrace(p.docs, ncir, ntrace, ok)
                c2 == Call("NL5_DeleteTrace", <<ncir, ntrace>>, r, p.docs)
            IN  IF ntrace >= 0
                THEN IF failed(r.st)
                     THEN Finish(Raise("delete_trace", <<c1, c2>>, "NL5ValueException"), r.docs)
                     ELSE Finish(Return("delete_trace", <<c1, c2>>, <<>>), r.docs)
                ELSE Finish(Raise("delete_trace", <<c1>>, "NL5TraceException"), p.docs)
       ELSE NotOpened("delete_trace")

\* ct.c_double(): a C double, initialised to 0.0
c_double_new == 0

\* NL5_dll.set_input_value: `v = ct.c_double()` replaces the caller's value
\* before the call
set_input_value(name, v) ==
    /\ argv' = <<name, v>>
    /\ ncir' = ncir
    /\ IF has_document(ncir)
       THEN LET p == NL5_GetInput(docs, ncir, name)
                nin == p.st
                c1 == Call("NL5_GetInput", <<ncir, name>>, p, docs)
                v1 == c_double_new
                r == NL5_SetInputValue(p.docs, ncir, nin, v1)
                c2 == Call("NL5_SetInputValue", <<ncir, nin, v1>>, r, p.docs)
            IN  IF nin >= 0
                THEN IF failed(r.st)
                     THEN Finish(Raise("set_input_value", <<c1, c2>>, "NL5ValueException"), r.docs)
                     ELSE Finish(Return("set_input_value", <<c1, c2>>, <<>>), r.docs)
                ELSE Finish(Raise("set_input_value", <<c1>>, "NL5TraceException"), p.docs)
       ELSE NotOpened("set_input_value")

\* NL5_dll.set_input_logical_value: `v = ct.c_double()` and then `int(v)`, which
\* raises ValueError (a ctypes double is no number, and int() reads its bytes
\* as a literal) before NL5_SetInputLogicalValue is called
set_input_logical_value(name, v) ==
    /\ argv' = <<name, v>>
    /\ ncir' = ncir
    /\ IF has_document(ncir)
       THEN LET p == NL5_GetInput(docs, ncir, name)
                nin == p.st
                c1 == Call("NL5_GetInput", <<ncir, name>>, p, docs)
            IN  IF nin >= 0
                THEN Finish(Raise("set_input_logical_value", <<c1>>, "ValueError"), p.docs)
                ELSE Finish(Raise("set_input_logical_value", <<c1>>, "NL5TraceException"), p.docs)
       ELSE NotOpened("set_input_logical_value")

\* NL5_dll.get_output_value
get_output_value(name) ==
    /\ argv' = <<name>>
    /\ ncir' = ncir
    /\ IF has_document(ncir)
       THEN LET p == NL5_GetOutput(docs, ncir, name)
                nout == p.st
                c1 == Call("NL5_GetOutput", <<ncir, name>>, p, docs)
                r == NL5_GetOutputValue(p.docs, ncir, nout)
                c2 == Call("NL5_GetOutputValue", <<ncir, nout>>, r, p.docs)
            IN  IF nout >= 0
                THEN IF failed(r.st)
                     THEN Finish(Raise("get_output_value", <<c1, c2>>, "NL5ValueException"), r.docs)
                     ELSE Finish(Return("get_output_value", <<c1, c2>>, r.out), r.docs)
                ELSE Finish(Raise("get_output_value", <<c1>>, "NL5TraceException"), p.docs)
       ELSE NotOpened("get_output_value")

\* NL5_dll.get_output_logical_value: `v = ct.c_double()` is passed where the
\* entry point is declared with POINTER(c_int), so ctypes raises ArgumentError
\* before NL5_GetOutputLogicalValue is called
get_output_logical_value(name) ==
    /\ argv' = <<name>>
    /\ ncir' = ncir
    /\ IF has_document(ncir)
       THEN LET p == NL5_GetOutput(docs, ncir, name)
                nout == p.st
                c1 == Call("NL5_GetOutput", <<ncir, name>>, p, docs)
            IN  IF nout >= 0
                THEN Finish(Raise("get_output_logical_value", <<c1>>, "ArgumentError"), p.docs)
                ELSE Finish(Raise("get_output_logical_value", <<c1>>, "NL5TraceException"), p.docs)
       ELSE NotOpened("get_output_logical_value")

----------------------------------------------------------------------------
(* The client: simulation *)

\* abs() of a float
abs(x) == IF x < 0 THEN 0 - x ELSE x

\* A Python int is unbounded and a C int holds 32 bits: the int
\* wraps * 2^32 + low, with low in the range of a C int, is written as the
\* pair of wraps and low.
PyInt(wraps, low) == [wraps |-> wraps, low |-> low]
negative(n) == n.wraps < 0 \/ (n.wraps = 0 /\ n.low < 0)
\* abs() of an int
int_abs(n) == IF negative(n) THEN PyInt(0 - n.wraps, 0 - n.low) ELSE n
\* argtypes = [..., ct.c_int, ...]: ctypes passes the low 32 bits of the int
c_int(n) == n.low

\* the model stops the clock at MaxClock
within_clock(interval) ==
    IsDoc(docs, ncir) => clock(running(docs[ncir])) + interval <= MaxClock

\* NL5_dll.set_step
set_step(step, ok) ==
    /\ argv' = <<step>>
    /\ ncir' = ncir
    /\ IF has_document(ncir)
       THEN LET r == NL5_SetStep(docs, ncir, abs(step), ok)
                calls == << Call("NL5_SetStep", <<ncir, abs(step)>>, r, docs) >>
            IN  IF failed(r.st)
                THEN Finish(Raise("set_step", calls, "NL5ValueException"), r.docs)
                ELSE Finish(Return("set_step", calls, <<>>), r.docs)
       ELSE NotOpened("set_step")

\* NL5_dll.set_timeout
set_timeout(t, ok) ==
    /\ argv' = <<t>>
    /\ ncir' = ncir
    /\ IF has_document(ncir)
       THEN LET r == NL5_SetTimeout(docs, ncir, c_int(int_abs(t)), ok)
                calls == << Call("NL5_SetTimeout", <<ncir, c_int(int_abs(t))>>, r, docs) >>
            IN  IF failed(r.st)
                THEN Finish(Raise("set_timeout", calls, "NL5ValueException"), r.docs)
                ELSE Finish(Return("set_timeout", calls, <<>>), r.docs)
       ELSE NotOpened("set_timeout")

\* NL5_dll.get_simulation_time
get_simulation_time ==
    /\ argv' = <<>>
    /\ ncir' = ncir
    /\ IF has_document(ncir)
       THEN LET r == NL5_GetSimulationTime(docs, ncir)
                calls == << Call("NL5_GetSimulationTime", <<ncir>>, r, docs) >>
            IN  IF failed(r.st)
                THEN Finish(Raise("get_simulation_time", calls, "NL5ValueException"), r.docs)
                ELSE Finish(Return("get_simulation_time", calls, r.out), r.docs)
       ELSE NotOpened("get_simulation_time")

\* a start that goes on to simulate one step
start_then_step(ok) ==
    /\ argv' = <<>>
    /\ ncir' = ncir
    /\ IF has_document(ncir)
       THEN LET r == NL5_Start(docs, ncir, ok)
                c1 == Call("NL5_Start", <<ncir>>, r, docs)
                q == NL5_SimulateStep(r.docs, ncir, TRUE)
                c2 == Call("NL5_SimulateStep", <<ncir>>, q, r.docs)
            IN  IF failed(r.st)
                THEN Finish(Raise("start", <<c1>>, "NL5StartException"), r.docs)
                ELSE Finish(Return("start", <<c1, c2>>, <<>>), q.docs)
       ELSE NotOpened("start")

\* NL5_dll.start
start(ok) ==
    /\ argv' = <<>>
    /\ ncir' = ncir
    /\ IF has_document(ncir)
       THEN LET r == NL5_Start(docs, ncir, ok)
                calls == << Call("NL5_Start", <<ncir>>, r, docs) >>
            IN  IF failed(r.st)
                THEN Finish(Raise("start", calls, "NL5StartException"), r.docs)
                ELSE Finish(Return("start", calls, <<>>), r.docs)
       ELSE NotOpened("start")

\* a simulate that asks the engine for an interval of no length
simulate_nothing(interval, ok) ==
    /\ within_clock(abs(interval))
    /\ argv' = <<interval>>
    /\ ncir' = ncir
    /\ IF has_document(ncir)
       THEN LET r == NL5_Simulate(docs, ncir, 0, ok)
                calls == << Call("NL5_Simulate", <<ncir, 0>>, r, docs) >>
            IN  IF failed(r.st)
                THEN Finish(Raise("simulate", calls, "NL5StartException"), r.docs)
                ELSE Finish(Return("simulate", calls, <<>>), r.docs)
       ELSE NotOpened("simulate")

\* NL5_dll.simulate
simulate(interval, ok) ==
    /\ within_clock(abs(interval))
    /\ argv' = <<interval>>
    /\ ncir' = ncir
    /\ IF has_document(ncir)
       THEN LET r == NL5_Simulate(docs, ncir, abs(interval), ok)
                calls == << Call("NL5_Simulate", <<ncir, abs(interval)>>, r, docs) >>
            IN  IF failed(r.st)
                THEN Finish(Raise("simulate", calls, "NL5StartException"), r.docs)
                ELSE Finish(Return("simulate", calls, <<>>), r.docs)
       ELSE NotOpened("simulate")

\* NL5_dll.simulate_interval
simulate_interval(interval, ok) ==
    /\ within_clock(abs(interval))
    /\ argv' = <<interval>>
    /\ ncir' = ncir
    /\ IF has_document(ncir)
       THEN LET r == NL5_SimulateInterval(docs, ncir, abs(interval), ok)
                calls == << Call("NL5_SimulateInterval", <<ncir, abs(interval)>>, r, docs) >>
            IN  IF failed(r.st)
                THEN Finish(Raise("simulate_interval", calls, "NL5StartException"), r.docs)
                ELSE Finish(Return("simulate_interval", calls, <<>>), r.docs)
       ELSE NotOpened("simulate_interval")

\* NL5_dll.simulate_step
simulate_step(ok) ==
    /\ within_clock(1)
    /\ argv' = <<>>
    /\ ncir' = ncir
    /\ IF has_document(ncir)
       THEN LET r == NL5_SimulateStep(docs, ncir, ok)
                calls == << Call("NL5_SimulateStep", <<ncir>>, r, docs) >>
            IN  IF failed(r.st)
                THEN Finish(Raise("simulate_step", calls, "NL5StartException"), r.docs)
                ELSE Finish(Return("simulate_step", calls, <<>>), r.docs)
       ELSE NotOpened("simulate_step")

\* NL5_dll.save_ic
save_ic(ok) ==
    /\ argv' = <<>>
    /\ ncir' = ncir
    /\ IF has_document(ncir)
       THEN LET r == NL5_SaveIC(docs, ncir, ok)
                calls == << Call("NL5_SaveIC", <<ncir>>, r, docs) >>
            IN  IF failed(r.st)
                THEN Finish(Raise("save_ic", calls, "NL5SaveException"), r.docs)
                ELSE Finish(Return("save_ic", calls, <<>>), r.docs)
       ELSE NotOpened("save_ic")

\* NL5_dll.delete_old_data
delete_old_data(ok) ==
    /\ argv' = <<>>
    /\ ncir' = ncir
    /\ IF has_document(ncir)
       THEN LET r == NL5_DeleteOldData(docs, ncir, ok)
                calls == << Call("NL5_DeleteOldData", <<ncir>>, r, docs) >>
            IN  IF failed(r.st)
                THEN Finish(Raise("delete_old_data", calls, "NL5DeleteException"), r.docs)
                ELSE Finish(Return("delete_old_data", calls, <<>>), r.docs)
       ELSE NotOpened("delete_old_data")

\* NL5_dll.save_data(name, path)
save_data(name, path, ok) ==
    LET data_file == join(resolve(path), with_ext(name, Ext_nlt)) IN
    /\ argv' = <<name, path>>
    /\ ncir' = ncir
    /\ IF has_document(ncir)
       THEN LET r == NL5_SaveData(docs, ncir, data_file, ok)
                calls == << Call("NL5_SaveData", <<ncir, data_file>>, r, docs) >>
            IN  IF failed(r.st)
                THEN Finish(Raise("save_data", calls, "NL5SaveException"), r.docs)
                ELSE Finish(Return("save_data", calls, <<>>), r.docs)
       ELSE NotOpened("save_data")

----------------------------------------------------------------------------
(* The client: transient and AC data *)

\* a get_trace that looks the trace up in the document
get_trace_lookup(name) ==
    /\ argv' = <<name>>
    /\ ncir' = ncir
    /\ IF has_document(ncir)
       THEN LET p == NL5_GetTrace(docs, ncir, name)
                c1 == Call("NL5_GetTrace", <<ncir, name>>, p, docs)
            IN  IF failed(p.st)
                THEN Finish(Raise("get_trace", <<c1>>, "NL5TraceException"), p.docs)
                ELSE Finish(Return("get_trace", <<c1>>, <<p.st>>), p.docs)
       ELSE NotOpened("get_trace")

\* NL5_dll.get_trace, NL5_dll.get_ac_trace
get_trace(name) ==
    /\ argv' = <<name>>
    /\ ncir' = ncir
    /\ Finish(Raise("get_trace", <<>>, "NL5NotImplementedException"), docs)

get_ac_trace(name) ==
    /\ argv' = <<name>>
    /\ ncir' = ncir
    /\ Finish(Raise("get_ac_trace", <<>>, "NL5NotImplementedException"), docs)

\* NL5_dll.get_data
get_data(name, time) ==
    /\ argv' = <<name, time>>
    /\ ncir' = ncir
    /\ IF has_document(ncir)
       THEN LET p == NL5_GetTrace(docs, ncir, name)
                ntrace == p.st
                c1 == Call("NL5_GetTrace", <<ncir, name>>, p, docs)
                r == NL5_GetData(p.docs, ncir, ntrace, abs(time))
                c2 == Call("NL5_GetData", <<ncir, ntrace, abs(time)>>, r, p.docs)
            IN  IF ntrace >= 0
                THEN IF failed(r.st)
                     THEN Finish(Raise("get_data", <<c1, c2>>, "NL5ValueException"), r.docs)
                     ELSE Finish(Return("get_data", <<c1, c2>>, r.out), r.docs)
                ELSE Finish(Raise("get_data", <<c1>>, "NL5TraceException"), p.docs)
       ELSE NotOpened("get_data")

\* NL5_dll.get_last_data
get_last_data(name) ==
    /\ argv' = <<name>>
    /\ ncir' = ncir
    /\ IF has_document(ncir)
       THEN LET p == NL5_GetTrace(docs, ncir, name)
                ntrace == p.st
                c1 == Call("NL5_GetTrace", <<ncir, name>>, p, docs)
                r == NL5_GetLastData(p.docs, ncir, ntrace)
                c2 == Call("NL5_GetLastData", <<ncir, ntrace>>, r, p.docs)
            IN  IF ntrace >= 0
                THEN IF failed(r.st)
                     THEN Finish(Raise("get_last_data", <<c1, c2>>, "NL5ValueException"), r.docs)
                     ELSE Finish(Return("get_last_data", <<c1, c2>>, r.out), r.docs)
                ELSE Finish(Raise("get_last_data", <<c1>>, "NL5TraceException"), p.docs)
       ELSE NotOpened("get_last_data")

\* a get_data_at that counts the samples from one
get_data_at_one_based(name, n) ==
    /\ argv' = <<name, n>>
    /\ ncir' = ncir
    /\ IF has_document(ncir)
       THEN LET p == NL5_GetTrace(docs, ncir, name)
                ntrace == p.st
                c1 == Call("NL5_GetTrace", <<ncir, name>>, p, docs)
                r == NL5_GetDataAt(p.docs, ncir, ntrace, c_int(n) - 1)
                c2 == Call("NL5_GetDataAt", <<ncir, ntrace, c_int(n) - 1>>, r, p.docs)
            IN  IF ntrace >= 0
                THEN IF failed(r.st)
                     THEN Finish(Raise("get_data_at", <<c1, c2>>, "NL5ValueException"), r.docs)
                     ELSE Finish(Return("get_data_at", <<c1, c2>>, r.out), r.docs)
                ELSE Finish(Raise("get_data_at", <<c1>>, "NL5TraceException"), p.docs)
       ELSE NotOpened("get_data_at")

\* NL5_dll.get_data_at
get_data_at(name, n) ==
    /\ argv' = <<name, n>>
    /\ ncir' = ncir
    /\ IF has_document(ncir)
       THEN LET p == NL5_GetTrace(docs, ncir, name)
                ntrace == p.st
                c1 == Call("NL5_GetTrace", <<ncir, name>>, p, docs)
                r == NL5_GetDataAt(p.docs, ncir, ntrace, c_int(n))
                c2 == Call("NL5_GetDataAt", <<ncir, ntrace, c_int(n)>>, r, p.docs)
            IN  IF ntrace >= 0
                THEN IF failed(r.st)
                     THEN Finish(Raise("get_data_at", <<c1, c2>>, "NL5ValueException"), r.docs)
                     ELSE Finish(Return("get_data_at", <<c1, c2>>, r.out), r.docs)
                ELSE Finish(Raise("get_data_at", <<c1>>, "NL5TraceException"), p.docs)
       ELSE NotOpened("get_data_at")

\* NL5_dll.get_data_size
get_data_size(name) ==
    /\ argv' = <<name>>
    /\ ncir' = ncir
    /\ IF has_document(ncir)
       THEN LET p == NL5_GetTrace(docs, ncir, name)
                ntrace == p.st
                c1 == Call("NL5_GetTrace", <<ncir, name>>, p, docs)
                r == NL5_GetDataSize(p.docs, ncir, ntrace)
                c2 == Call("NL5_GetDataSize", <<ncir, ntrace>>, r, p.docs)
            IN  IF ntrace >= 0
                THEN IF failed(r.st)
                     THEN Finish(Raise("get_data_size", <<c1, c2>>, "NL5ValueException"), r.docs)
                     ELSE Finish(Return("get_data_size", <<c1, c2>>, <<r.st>>), r.docs)
                ELSE Finish(Raise("get_data_size", <<c1>>, "NL5TraceException"), p.docs)
       ELSE NotOpened("get_data_size")

\* NL5_dll.simulate_ac
simulate_ac(ok) ==
    /\ argv' = <<>>
    /\ ncir' = ncir
    /\ IF has_document(ncir)
       THEN LET r == NL5_CalcAC(docs, ncir, ok)
                calls == << Call("NL5_CalcAC", <<ncir>>, r, docs) >>
            IN  IF failed(r.st)
                THEN Finish(Raise("simulate_ac", calls, "NL5StartException"), r.docs)
                ELSE Finish(Return("simulate_ac", calls, <<>>), r.docs)
       ELSE NotOpened("simulate_ac")

\* a get_ac_data_size that resolves the name among the transient traces
get_ac_data_size_transient(name) ==
    /\ argv' = <<name>>
    /\ ncir' = ncir
    /\ IF has_document(ncir)
       THEN LET p == NL5_GetTrace(docs, ncir, name)
                ntrace == p.st
                c1 == Call("NL5_GetTrace", <<ncir, name>>, p, docs)
                r == NL5_GetACDataSize(p.docs, ncir, ntrace)
                c2 == Call("NL5_GetACDataSize", <<ncir, ntrace>>, r, p.docs)
            IN  IF ntrace >= 0
                THEN IF failed(r.st)
                     THEN Finish(Raise("get_ac_data_size", <<c1, c2>>, "NL5ValueException"), r.docs)
                     ELSE Finish(Return("get_ac_data_size", <<c1, c2>>, <<r.st>>), r.docs)
                ELSE Finish(Raise("get_ac_data_size", <<c1>>, "NL5TraceException"), p.docs)
       ELSE NotOpened("get_ac_data_size")

\* NL5_dll.get_ac_data_size
get_ac_data_size(name) ==
    /\ argv' = <<name>>
    /\ ncir' = ncir
    /\ IF has_document(ncir)
       THEN LET p == NL5_GetACTrace(docs, ncir, name)
                ntrace == p.st
                c1 == Call("NL5_GetACTrace", <<ncir, name>>, p, docs)
                r == NL5_GetACDataSize(p.docs, ncir, ntrace)
                c2 == Call("NL5_GetACDataSize", <<ncir, ntrace>>, r, p.docs)
            IN  IF ntrace >= 0
                THEN IF failed(r.st)
                     THEN Finish(Raise("get_ac_data_size", <<c1, c2>>, "NL5ValueException"), r.docs)
                     ELSE Finish(Return("get_ac_data_size", <<c1, c2>>, <<r.st>>), r.docs)
                ELSE Finish(Raise("get_ac_data_size", <<c1>>, "NL5TraceException"), p.docs)
       ELSE NotOpened("get_ac_data_size")

\* NL5_dll.get_ac_data_at
get_ac_data_at(name, n) ==
    /\ argv' = <<name, n>>
    /\ ncir' = ncir
    /\ IF has_document(ncir)
       THEN LET p == NL5_GetACTrace(docs, ncir, name)
                ntrace == p.st
                c1 == Call("NL5_GetACTrace", <<ncir, name>>, p, docs)
                r == NL5_GetACDataAt(p.docs, ncir, ntrace, c_int(n))
                c2 == Call("NL5_GetACDataAt", <<ncir, ntrace, c_int(n)>>, r, p.docs)
            IN  IF ntrace >= 0
                THEN IF failed(r.st)
                     THEN Finish(Raise("get_ac_data_at", <<c1, c2>>, "NL5ValueException"), r.docs)
                     ELSE Finish(Return("get_ac_data_at", <<c1, c2>>, r.out), r.docs)
                ELSE Finish(Raise("get_ac_data_at", <<c1>>, "NL5TraceException"), p.docs)
       ELSE NotOpened("get_ac_data_at")

\* NL5_dll.save_ac_data(name, path)
save_ac_data(name, path, ok) ==
    LET data_file == join(resolve(path), with_ext(name, Ext_nlf)) IN
    /\ argv' = <<name, path>>
    /\ ncir' = ncir
    /\ IF has_document(ncir)
       THEN LET r == NL5_SaveACData(docs, ncir, data_file, ok)
                calls == << Call("NL5_SaveACData", <<ncir, data_file>>, r, docs) >>
            IN  IF failed(r.st)
                THEN Finish(Raise("save_ac_data", calls, "NL5SaveException"), r.docs)
                ELSE Finish(Return("save_ac_data", calls, <<>>), r.docs)
       ELSE NotOpened("save_ac_data")

----------------------------------------------------------------------------
(* The client: bulk extraction *)

\* int(a / b) for b # 0: the quotient, truncated towards zero
trunc_div(a, b) ==
    IF (a >= 0) = (b > 0) THEN abs(a) \div abs(b) ELSE 0 - (abs(a) \div abs(b))

\* a loop of get_data_slice that goes on to the next index after a failure
RECURSIVE slice_loop_on(_, _, _, _, _)
slice_loop_on(ntrace, t_start, t_step, i, N) ==
    IF i >= N THEN <<>>
    ELSE LET t == i * t_step + t_start
             r == NL5_GetData(docs, ncir, ntrace, abs(t))
             c == Call("NL5_GetData", <<ncir, ntrace, abs(t)>>, r, docs)
         IN  <<c>> \o slice_loop_on(ntrace, t_start, t_step, i + 1, N)

\* `for i in range(N):` of get_data_slice, from index i on: the calls of
\* NL5_GetData, up to and including the first one that fails
RECURSIVE slice_loop(_, _, _, _, _)
slice_loop(ntrace, t_start, t_step, i, N) ==
    IF i >= N THEN <<>>
    ELSE LET t == i * t_step + t_start
             r == NL5_GetData(docs, ncir, ntrace, abs(t))
             c == Call("NL5_GetData", <<ncir, ntrace, abs(t)>>, r, docs)
         IN  IF failed(r.st) THEN <<c>>
             ELSE <<c>> \o slice_loop(ntrace, t_start, t_step, i + 1, N)

\* `for i in range(size):` of get_timedata_vectors
RECURSIVE timedata_loop(_, _, _)
timedata_loop(ntrace, i, size) ==
    IF i >= size THEN <<>>
    ELSE LET r == NL5_GetDataAt(docs, ncir, ntrace, i)
             c == Call("NL5_GetDataAt", <<ncir, ntrace, i>>, r, docs)
         IN  IF failed(r.st) THEN <<c>>
             ELSE <<c>> \o timedata_loop(ntrace, i + 1, size)

\* `for i in range(size):` of get_freqmagphase_vectors
RECURSIVE freqmagphase_loop(_, _, _)
freqmagphase_loop(ntrace, i, size) ==
    IF i >= size THEN <<>>
    ELSE LET r == NL5_GetACDataAt(docs, ncir, ntrace, i)
             c == Call("NL5_GetACDataAt", <<ncir, ntrace, i>>, r, docs)
         IN  IF failed(r.st) THEN <<c>>
             ELSE <<c>> \o freqmagphase_loop(ntrace, i + 1, size)

\* the loop ended with an exception: its last call failed
broke(loop) == loop # <<>> /\ failed(loop[Len(loop)].st)

\* the k-th out-parameter of every call of the loop, as a vector
column(loop, k) == [i \in 1..Len(loop) |-> loop[i].out[k]]

\* np.log10 of a power of ten
RECURSIVE log10(_)
log10(x) == IF x < 10 THEN 0 ELSE 1 + log10(x \div 10)

\* np.log10(vec) and 20.0 * np.log10(vec)
log10_vec(vec) == [i \in 1..Len(vec) |-> log10(vec[i])]
db_vec(vec) == [i \in 1..Len(vec) |-> 20 * log10(vec[i])]

\* NL5_dll.get_data_slice(name, t_start, t_end, t_step)
get_data_slice(name, t_start, t_end, t_step) ==
    /\ argv' = <<name, t_start, t_end, t_step>>
    /\ ncir' = ncir
    /\ IF has_document(ncir)
       THEN LET p == NL5_GetTrace(docs, ncir, name)
                ntrace == p.st
                c1 == Call("NL5_GetTrace", <<ncir, name>>, p, docs)
                N == trunc_div(t_end - t_start, t_step) + 1
                loop == slice_loop(ntrace, t_start, t_step, 0, N)
            IN  IF ntrace >= 0
                THEN IF t_step = 0
                     THEN Finish(Raise("get_data_slice", <<c1>>, "ZeroDivisionError"), docs)
                     ELSE IF N < 0
                     THEN Finish(Raise("get_data_slice", <<c1>>, "ValueError"), docs)
                     ELSE IF broke(loop)
                     THEN Finish(Raise("get_data_slice", <<c1>> \o loop, "NL5ValueException"), docs)
                     ELSE Finish(Return("get_data_slice", <<c1>> \o loop, <<column(loop, 1)>>), docs)
                ELSE Finish(Raise("get_data_slice", <<c1>>, "NL5TraceException"), docs)
       ELSE NotOpened("get_data_slice")

\* NL5_dll.get_timedata_vectors(name)
get_timedata_vectors(name) ==
    /\ argv' = <<name>>
    /\ ncir' = ncir
    /\ IF has_document(ncir)
       THEN LET p == NL5_GetTrace(docs, ncir, name)
                ntrace == p.st
                c1 == Call("NL5_GetTrace", <<ncir, name>>, p, docs)
                s == NL5_GetDataSize(docs, ncir, ntrace)
                size == s.st
                c2 == Call("NL5_GetDataSize", <<ncir, ntrace>>, s, docs)
                loop == timedata_loop(ntrace, 0, size)
            IN  IF ntrace >= 0
                THEN IF size < 0
                     THEN Finish(Raise("get_timedata_vectors", <<c1, c2>>, "NL5ValueException"), docs)
                     ELSE IF broke(loop)
                     THEN Finish(Raise("get_timedata_vectors", <<c1, c2>> \o loop,
                                       "NL5ValueException"), docs)
                     ELSE Finish(Return("get_timedata_vectors", <<c1, c2>> \o loop,
                                        <<column(loop, 1), column(loop, 2)>>), docs)
                ELSE Finish(Raise("get_timedata_vectors", <<c1>>, "NL5TraceException"), docs)
       ELSE NotOpened("get_timedata_vectors")

\* NL5_dll.get_freqmagphase_vectors(name, log)
get_freqmagphase_vectors(name, log) ==
    /\ argv' = <<name, log>>
    /\ ncir' = ncir
    /\ IF has_document(ncir)
       THEN LET p == NL5_GetACTrace(docs, ncir, name)
                ntrace == p.st
                c1 == Call("NL5_GetACTrace", <<ncir, name>>, p, docs)
                s == NL5_GetACDataSize(docs, ncir, ntrace)
                size == s.st
                c2 == Call("NL5_GetACDataSize", <<ncir, ntrace>>, s, docs)
                loop == freqmagphase_loop(ntrace, 0, size)
                f_vec == column(loop, 1)
                m_vec == column(loop, 2)
                p_vec == column(loop, 3)
            IN  IF ntrace >= 0
                THEN IF size < 0
                     THEN Finish(Raise("get_freqmagphase_vectors", <<c1, c2>>,
                                       "NL5ValueException"), docs)
                     ELSE IF broke(loop)
                     THEN Finish(Raise("get_freqmagphase_vectors", <<c1, c2>> \o loop,
                                       "NL5ValueException"), docs)
                     ELSE Finish(Return("get_freqmagphase_vectors", <<c1, c2>> \o loop,
                                        IF log THEN <<log10_vec(f_vec), db_vec(m_vec), p_vec>>
                                        ELSE <<f_vec, m_vec, p_vec>>), docs)
                ELSE Finish(Raise("get_freqmagphase_vectors", <<c1>>, "NL5TraceException"), docs)
       ELSE NotOpened("get_freqmagphase_vectors")

----------------------------------------------------------------------------
(* The client: operations that need no document *)

\* NL5_GetError(), NL5_GetInfo(): a text; asking for it leaves the engine's
\* last error as it is
NL5_GetError == Answer(0, docs, <<error>>)
NL5_GetInfo == Answer(0, docs, <<"NL5 DLL">>)

\* NL5_dll.get_error()
get_error ==
    LET c == NL5_GetError IN
    /\ argv' = <<>>
    /\ ncir' = ncir
    /\ last' = Return("get_error", << Call("NL5_GetError", <<>>, c, docs) >>, c.out)
    /\ UNCHANGED <<docs, error>>

\* NL5_dll.get_info()
get_info ==
    LET c == NL5_GetInfo IN
    /\ argv' = <<>>
    /\ ncir' = ncir
    /\ last' = Return("get_info", << Call("NL5_GetInfo", <<>>, c, docs) >>, c.out)
    /\ UNCHANGED <<docs, error>>

\* self.path: the folder of the library, given to the constructor
dll_path == <<"/", "l">>

\* a get_license that takes every status that is not negative for a valid license
get_license_lenient(name, path, w) ==
    LET dir == IF path # <<>> THEN abspath(path) ELSE dll_path
        lic_file == join(dir, with_ext(name, Ext_nll))
        retval == NL5_GetLicense(lic_file, w)
        calls == << Call("NL5_GetLicense", <<lic_file>>, Answer(retval, docs, <<>>), docs) >>
    IN  /\ argv' = <<name, path>>
        /\ ncir' = ncir
        /\ IF retval < 0
           THEN Finish(Raise("get_license", calls, "NL5LicenseException"), docs)
           ELSE Finish(Return("get_license", calls, << TRUE >>), docs)

\* NL5_dll.get_license(name, path)
get_license(name, path, w) ==
    LET dir == IF path # <<>> THEN abspath(path) ELSE dll_path
        lic_file == join(dir, with_ext(name, Ext_nll))
        retval == NL5_GetLicense(lic_file, w)
        calls == << Call("NL5_GetLicense", <<lic_file>>, Answer(retval, docs, <<>>), docs) >>
    IN  /\ argv' = <<name, path>>
        /\ ncir' = ncir
        /\ IF retval < 0
           THEN Finish(Raise("get_license", calls, "NL5LicenseException"), docs)
           ELSE Finish(Return("get_license", calls, << retval = 0 >>), docs)

----------------------------------------------------------------------------
(* What the callers pass *)

\* a name that resolves and one that does not, for each kind of name
ParamNames == {ParamName, NoName}
TraceNames == {TraceName, NoName}
InputNames == {InputName, NoName}
OutputNames == {OutputName, NoName}
\* a file name without and with the extension, without and with a directory
Located(ext) ==
    { << <<"c">>, <<>> >>, << <<"c">> \o ext, <<>> >>, << <<"c">>, <<"d">> >> }
Texts == {text_of(v) : v \in Values} \cup { <<"?">> }
BufSizes == {DefaultBufSize, 2}
Intervals == (0 - 1)..MaxClock
SampleTimes == (0 - 1)..(MaxClock + 1)
Indices == {PyInt(0, r) : r \in (0 - 1)..(MaxClock + 1)} \cup {PyInt(0 - 1, 0)}
\* -1, 0, 1 and 2^32 - 1
Timeouts == {PyInt(0, r) : r \in (0 - 1)..1} \cup {PyInt(1, 0 - 1)}
\* t_start, t_end, t_step
Slices ==
    { <<0, MaxClock, 1>>, <<0, MaxClock, 0>>, <<1, 0 - 1, 1>>, <<0 - 1, 1, 2>>,
      <<0, MaxClock + 1, 1>> }
LicenseStatus == (0 - 1)..2

\* Each public method, called with any of these arguments
Call_open ==
    \E f \in Located(Ext_nl5), w \in Handles \cup {-1} :
        open(f[1], f[2], w)

Call_close == close

Call_save ==
    \E ok \in BOOLEAN :
        save(ok)

Call_save_as ==
    \E f \in Located(Ext_nl5), ok \in BOOLEAN :
        save_as(f[1], f[2], ok)

Call_get_value ==
    \E name \in ParamNames :
        get_value(name)

Call_set_value ==
    \E name \in ParamNames, v \in Values :
        set_value(name, v)

Call_get_text ==
    \E name \in ParamNames, buf_size \in BufSizes :
        get_text(name, buf_size)

Call_set_text ==
    \E name \in ParamNames, text \in Texts :
        set_text(name, text)

Call_get_parameter_value ==
    \E name \in ParamNames :
        get_parameter_value(name)

Call_set_parameter_value ==
    \E name \in ParamNames, v \in Values :
        set_parameter_value(name, v)

Call_get_parameter_text ==
    \E name \in ParamNames, buf_size \in BufSizes :
        get_parameter_text(name, buf_size)

Call_set_parameter_text ==
    \E name \in ParamNames, text \in Texts :
        set_parameter_text(name, text)

Call_add_voltage_trace ==
    \E name \in TraceNames, ok \in BOOLEAN :
        add_voltage_trace(name, ok)

Call_add_current_trace ==
    \E name \in TraceNames, ok \in BOOLEAN :
        add_current_trace(name, ok)

Call_add_power_trace ==
    \E name \in TraceNames, ok \in BOOLEAN :
        add_power_trace(name, ok)

Call_add_variable_trace ==
    \E name \in TraceNames, ok \in BOOLEAN :
        add_variable_trace(name, ok)

Call_add_function_trace ==
    \E text \in TraceNames, ok \in BOOLEAN :
        add_function_trace(text, ok)

Call_delete_trace ==
    \E name \in TraceNames, ok \in BOOLEAN :
        delete_trace(name, ok)

Call_set_input_value ==
    \E name \in InputNames, v \in Values :
        set_input_value(name, v)

Call_set_input_logical_value ==
    \E name \in InputNames, v \in BOOLEAN :
        set_input_logical_value(name, v)

Call_get_output_value ==
    \E name \in OutputNames :
        get_output_value(name)

Call_get_output_logical_value ==
    \E name \in OutputNames :
        get_output_logical_value(name)

Call_set_step ==
    \E step \in Intervals, ok \in BOOLEAN :
        set_step(step, ok)

Call_set_timeout ==
    \E t \in Timeouts, ok \in BOOLEAN :
        set_timeout(t, ok)

Call_get_simulation_time == get_simulation_time

Call_start ==
    \E ok \in BOOLEAN :
        start(ok)

Call_simulate ==
    \E interval \in Intervals, ok \in BOOLEAN :
        simulate(interval, ok)

Call_simulate_interval ==
    \E interval \in Intervals, ok \in BOOLEAN :
        simulate_interval(interval, ok)

Call_simulate_step ==
    \E ok \in BOOLEAN :
        simulate_step(ok)

Call_save_ic ==
    \E ok \in BOOLEAN :
        save_ic(ok)

Call_delete_old_data ==
    \E ok \in BOOLEAN :
        delete_old_data(ok)

Call_save_data ==
    \E f \in Located(Ext_nlt), ok \in BOOLEAN :
        save_data(f[1], f[2], ok)

Call_get_trace ==
    \E name \in TraceNames :
        get_trace(name)

Call_get_data ==
    \E name \in TraceNames, time \in SampleTimes :
        get_data(name, time)

Call_get_last_data ==
    \E name \in TraceNames :
        get_last_data(name)

Call_get_data_at ==
    \E name \in TraceNames, n \in Indices :
        get_data_at(name, n)

Call_get_data_size ==
    \E name \in TraceNames :
        get_data_size(name)

Call_simulate_ac ==
    \E ok \in BOOLEAN :
        simulate_ac(ok)

Call_get_ac_trace ==
    \E name \in TraceNames :
        get_ac_trace(name)

Call_get_ac_data_size ==
    \E name \in TraceNames :
        get_ac_data_size(name)

Call_get_ac_data_at ==
    \E name \in TraceNames, n \in Indices :
        get_ac_data_at(name, n)

Call_save_ac_data ==
    \E f \in Located(Ext_nlf), ok \in BOOLEAN :
        save_ac_data(f[1], f[2], ok)

Call_get_data_slice ==
    \E name \in TraceNames, s \in Slices :
        get_data_slice(name, s[1], s[2], s[3])

Call_get_timedata_vectors ==
    \E name \in TraceNames :
        get_timedata_vectors(name)

Call_get_freqmagphase_vectors ==
    \E name \in TraceNames, log \in BOOLEAN :
        get_freqmagphase_vectors(name, log)

Call_get_error == get_error

Call_get_info == get_info

Call_get_license ==
    \E f \in Located(Ext_nll), w \in LicenseStatus :
        get_license(f[1], f[2], w)

----------------------------------------------------------------------------
(* The specifications *)

\* a client that uses every public method
Next ==
    \/ Call_open
    \/ Call_close
    \/ Call_save
    \/ Call_save_as
    \/ Call_get_value
    \/ Call_set_value
    \/ Call_get_text
    \/ Call_set_text
    \/ Call_get_parameter_value
    \/ Call_set_parameter_value
    \/ Call_get_parameter_text
    \/ Call_set_parameter_text
    \/ Call_add_voltage_trace
    \/ Call_add_current_trace
    \/ Call_add_power_trace
    \/ Call_add_variable_trace
    \/ Call_add_function_trace
    \/ Call_delete_trace
    \/ Call_set_input_value
    \/ Call_set_input_logical_value
    \/ Call_get_output_value
    \/ Call_get_output_logical_value
    \/ Call_set_step
    \/ Call_set_timeout
    \/ Call_get_simulation_time
    \/ Call_start
    \/ Call_simulate
    \/ Call_simulate_interval
    \/ Call_simulate_step
    \/ Call_save_ic
    \/ Call_delete_old_data
    \/ Call_save_data
    \/ Call_get_trace
    \/ Call_get_data
    \/ Call_get_last_data
    \/ Call_get_data_at
    \/ Call_get_data_size
    \/ Call_simulate_ac
    \/ Call_get_ac_trace
    \/ Call_get_ac_data_size
    \/ Call_get_ac_data_at
    \/ Call_save_ac_data
    \/ Call_get_data_slice
    \/ Call_get_timedata_vectors
    \/ Call_get_freqmagphase_vectors
    \/ Call_get_error
    \/ Call_get_info
    \/ Call_get_license

Spec == Init /\ [][Next]_vars

\* a client that opens, closes and saves documents and reads and writes a value
NextLifecycle ==
    \/ Call_open
    \/ Call_close
    \/ Call_save
    \/ Call_save_as
    \/ Call_get_value
    \/ Call_set_value
    \/ Call_get_error
    \/ Call_get_license

SpecLifecycle == Init /\ [][NextLifecycle]_vars

\* a client that works with the component parameters of a document
NextParams ==
    \/ Call_open
    \/ Call_close
    \/ Call_get_value
    \/ Call_set_value
    \/ Call_get_text
    \/ Call_set_text
    \/ Call_get_parameter_value
    \/ Call_set_parameter_value
    \/ Call_get_parameter_text
    \/ Call_set_parameter_text

SpecParams == Init /\ [][NextParams]_vars

\* a client that runs a transient simulation and reads its data
NextData ==
    \/ Call_open
    \/ Call_close
    \/ Call_add_voltage_trace
    \/ Call_delete_trace
    \/ Call_start
    \/ Call_simulate
    \/ Call_simulate_step
    \/ Call_delete_old_data
    \/ Call_get_simulation_time
    \/ Call_get_data
    \/ Call_get_last_data
    \/ Call_get_data_at
    \/ Call_get_data_size
    \/ Call_get_timedata_vectors

SpecData == Init /\ [][NextData]_vars

\* a client that opens and saves files and asks for the license
NextFiles ==
    \/ Call_open
    \/ Call_close
    \/ Call_save
    \/ Call_save_as
    \/ Call_save_data
    \/ Call_save_ac_data
    \/ Call_get_license

SpecFiles == Init /\ [][NextFiles]_vars

\* a client that drives the inputs and reads the outputs of a document
NextSignals ==
    \/ Call_open
    \/ Call_close
    \/ Call_set_value
    \/ Call_set_input_value
    \/ Call_set_input_logical_value
    \/ Call_get_output_value
    \/ Call_get_output_logical_value
    \/ Call_get_trace
    \/ Call_get_ac_trace

SpecSignals == Init /\ [][NextSignals]_vars

\* a client that sweeps a parameter: sets it, simulates and samples a trace
NextSweep ==
    \/ Call_open
    \/ Call_close
    \/ Call_set_value
    \/ Call_start
    \/ Call_simulate
    \/ Call_get_data

SpecSweep == Init /\ [][NextSweep]_vars

\* a client that extracts whole traces and compares them with single samples
NextBulk ==
    \/ Call_open
    \/ Call_close
    \/ Call_start
    \/ Call_simulate
    \/ Call_simulate_ac
    \/ Call_get_data_at
    \/ Call_get_ac_data_at
    \/ Call_get_data_slice
    \/ Call_get_timedata_vectors
    \/ Call_get_freqmagphase_vectors

SpecBulk == Init /\ [][NextBulk]_vars

\* a client that names parameters, traces, inputs and outputs
NextNames ==
    \/ Call_open
    \/ Call_close
    \/ Call_start
    \/ Call_simulate_ac
    \/ Call_delete_trace
    \/ Call_get_parameter_value
    \/ Call_set_parameter_value
    \/ Call_get_parameter_text
    \/ Call_set_parameter_text
    \/ Call_set_input_value
    \/ Call_set_input_logical_value
    \/ Call_get_output_value
    \/ Call_get_output_logical_value
    \/ Call_get_data
    \/ Call_get_last_data
    \/ Call_get_data_at
    \/ Call_get_data_size
    \/ Call_get_ac_data_size
    \/ Call_get_ac_data_at

SpecNames == Init /\ [][NextNames]_vars

----------------------------------------------------------------------------
(* Properties *)

\* the exception kinds derived from NL5Exception
NL5Exceptions ==
    {"NL5OpenException", "NL5ParamException", "NL5TraceException",
     "NL5ValueException", "NL5SaveException", "NL5StartException",
     "NL5DeleteException", "NL5LicenseException", "NL5NotImplementedException"}

\* the operations that work on the open document
PerDocumentOps ==
    {"close", "save", "save_as", "get_value", "set_value", "get_text", "set_text",
     "get_parameter_value", "set_parameter_value", "get_parameter_text",
     "set_parameter_text", "add_voltage_trace", "add_current_trace",
     "add_power_trace", "add_variable_trace", "add_function_trace", "delete_trace",
     "set_input_value", "set_input_logical_value", "get_output_value",
     "get_output_logical_value", "set_step", "set_timeout", "get_simulation_time",
     "start", "simulate", "simulate_interval", "simulate_step", "save_ic",
     "delete_old_data", "save_data", "get_data", "get_last_data", "get_data_at",
     "get_data_size", "simulate_ac", "get_ac_data_size", "get_ac_data_at",
     "save_ac_data", "get_data_slice", "get_timedata_vectors",
     "get_freqmagphase_vectors"}

\* the last public call made at least one foreign call, and the document of
\* the client's handle was open in the engine when it made the first one
document_was_open == last.calls # <<>> /\ last.h0 \in last.calls[1].live

\* C1: a per-document operation called while the client's handle is -1 raises
\* NL5OpenException and makes no foreign call.
C1_NoDocumentRaisesOpen ==
    (last.op \in PerDocumentOps /\ last.h0 = -1)
        => (last.exc = "NL5OpenException" /\ last.calls = <<>>)

C1_Witness ==
    /\ last.op = "save_data"
    /\ last.h0 = -1
    /\ last.exc = "NL5OpenException"
    /\ last.calls = <<>>

\* C2: after close() returns normally the client is in the no-document state:
\* its handle is -1, so that a second close() makes no foreign call with the
\* closed handle.
C2_CloseInvalidatesHandle ==
    /\ (last.op = "close" /\ last.exc = NoException) => ncir = -1
    /\ last.op = "close" =>
          \A i \in DOMAIN last.calls : last.calls[i].args[1] \in last.calls[i].live

\* C3: every handle a successful NL5_Open returned is passed to NL5_Close once
\* before another document is opened, and never a second time: NL5_Close is
\* only called for a handle that is still open, and NL5_Open succeeds only
\* when the client has no other document open.
C3_HandleReleasedExactlyOnce ==
    \A i \in DOMAIN last.calls :
        LET c == last.calls[i] IN
        /\ c.fn = "NL5_Close" => c.args[1] \in c.live
        /\ (c.fn = "NL5_Open" /\ c.st >= 0) => c.live = {}

\* C4: open() called with a handle h >= 0 calls NL5_Close(h) and then NL5_Open;
\* open() called with the handle -1 calls NL5_Open only.
C4_OpenClosesFirst ==
    last.op = "open" =>
        IF last.h0 >= 0
        THEN /\ Len(last.calls) = 2
             /\ last.calls[1].fn = "NL5_Close"
             /\ last.calls[1].args = <<last.h0>>
             /\ last.calls[2].fn = "NL5_Open"
        ELSE /\ Len(last.calls) = 1
             /\ last.calls[1].fn = "NL5_Open"

C4_Witness ==
    /\ last.op = "open"
    /\ last.h0 >= 0
    /\ Len(last.calls) = 2
    /\ last.calls[1].fn = "NL5_Close"
    /\ last.calls[1].st = 0
    /\ last.calls[2].fn = "NL5_Open"
    /\ last.calls[2].st >= 0

\* C5: at most one document opened through the client is open in the engine,
\* and a handle >= 0 of the client is the handle of that document.
C5_OneDocumentAndHandleIsIt ==
    /\ Cardinality(DOMAIN docs) <= 1
    /\ ncir >= 0 => DOMAIN docs = {ncir}

\* C6: a negative status of a foreign call makes the operation raise at once:
\* the failed call is the last call of the operation and the operation ends
\* with an exception.
C6_NegativeStatusRaises ==
    \A i \in DOMAIN last.calls :
        last.calls[i].st < 0 => (i = Len(last.calls) /\ last.exc # NoException)

\* C7: whatever a public operation raises is an exception derived from
\* NL5Exception.
C7_OnlyNL5Exceptions == last.exc \in NL5Exceptions \cup {NoException}

\* the operations that take the name of a component parameter
ParameterOps ==
    {"get_value", "set_value", "get_text", "set_text", "get_parameter_value",
     "set_parameter_value", "get_parameter_text", "set_parameter_text"}

\* C8: with a document open, a get or set of a parameter the document does not
\* have raises NL5ParamException or NL5ValueException and returns nothing.
C8_UnknownParameterRaises ==
    (last.op \in ParameterOps /\ document_was_open /\ argv[1] = NoName)
        => /\ last.calls[1].st < 0
           /\ last.exc \in {"NL5ParamException", "NL5ValueException"}
           /\ last.ret = <<>>

C8_Witness ==
    /\ last.op = "get_parameter_value"
    /\ document_was_open
    /\ argv[1] = NoName
    /\ last.exc = "NL5ParamException"

\* C9: with a document open and a trace of size >= 1, get_data_at(trace, n)
\* returns the n-th (time, value) pair for 0 <= n <= size-1, raises
\* NL5ValueException for n = size and for every n < 0, and passes n to the
\* engine unchanged.
C9_IndexBounds ==
    (/\ last.op = "get_data_at"
     /\ document_was_open
     /\ last.calls[1].st >= 0
     /\ Len(docs[last.h0].data) >= 1)
        => LET n == argv[2]
               data == docs[last.h0].data
               size == Len(data)
           IN  /\ (n.wraps = 0 /\ 0 <= n.low /\ n.low <= size - 1)
                    => /\ last.exc = NoException
                       /\ last.ret = <<data[n.low + 1], wave(data[n.low + 1])>>
               /\ (n = PyInt(0, size) \/ negative(n))
                    => last.exc = "NL5ValueException"
               /\ Len(last.calls) = 2
               /\ PyInt(0, last.calls[2].args[3]) = n

\* C10: set_value(p, x) that succeeds, followed at once by get_value(p),
\* returns x: the wrapper hands x to the engine unchanged and hands the value
\* the engine stores back unchanged.
C10_SetGetRoundTrip ==
    [][(/\ last.op = "set_value"
        /\ last.exc = NoException
        /\ document_was_open
        /\ last'.op = "get_value"
        /\ argv'[1] = argv[1])
          => /\ last.calls[1].args[3] = argv[2]
             /\ last'.exc = NoException
             /\ last'.ret = <<argv[2]>>]_vars

C10_Witness ==
    /\ last.op = "get_value"
    /\ document_was_open
    /\ last.exc = NoException
    /\ last.ret = <<0 - MaxValue>>

\* C11: with a document open, a start() that succeeds followed at once by
\* get_simulation_time() returns 0: start() makes the one foreign call
\* NL5_Start, which resets the clock, whatever was simulated before.
C11_StartResetsClock ==
    [][(/\ last.op = "start"
        /\ last.exc = NoException
        /\ document_was_open
        /\ last'.op = "get_simulation_time")
          => /\ Len(last.calls) = 1
             /\ last.calls[1].fn = "NL5_Start"
             /\ last'.exc = NoException
             /\ last'.ret = <<0>>]_vars

C11_Witness ==
    /\ last.op = "get_simulation_time"
    /\ document_was_open
    /\ last.exc = NoException
    /\ last.ret = <<0>>
    /\ docs[last.h0].data = <<0>>

\* the operations that take a file name, the extension each one adds, and
\* the foreign call that receives the file
FileOps == {"open", "save_as", "save_data", "save_ac_data"}

ExtensionOf(op) ==
    CASE op = "open" -> Ext_nl5
      [] op = "save_as" -> Ext_nl5
      [] op = "save_data" -> Ext_nlt
      [] op = "save_ac_data" -> Ext_nlf

tail(s, n) == IF Len(s) < n THEN <<>> ELSE SubSeq(s, Len(s) - n + 1, Len(s))

\* the last foreign call of the last public call, and the file it received
last_call == last.calls[Len(last.calls)]
file_passed == last_call.args[Len(last_call.args)]

\* C12: the file name open, save_as, save_data and save_ac_data pass to the
\* engine is the caller's name when it already ends with the operation's
\* extension, and the name followed by the extension otherwise; the
\* extension is never doubled.
C12_ExtensionOnce ==
    (last.op \in FileOps /\ last.calls # <<>>)
        => LET ext == ExtensionOf(last.op)
               name == argv[1]
               expected == IF tail(name, Len(ext)) = ext THEN name ELSE name \o ext
           IN  /\ tail(file_passed, Len(expected) + 1) = <<"/">> \o expected
               /\ tail(file_passed, Len(ext)) = ext
               /\ tail(file_passed, 2 * Len(ext)) # ext \o ext

C12_Witness ==
    /\ last.op = "save_data"
    /\ last.calls # <<>>
    /\ argv[1] = <<"c">> \o Ext_nlt
    /\ file_passed = join(getcwd, <<"c">> \o Ext_nlt)

\* C13: get_license raises NL5LicenseException for a negative status of
\* NL5_GetLicense, returns True for the status 0 and False for every positive
\* status; it makes that one foreign call whether or not a document is open
\* and leaves the client's handle and the documents as they are.
C13_LicenseOutcomes ==
    [][last'.op = "get_license"
          => /\ ncir' = ncir
             /\ docs' = docs
             /\ last'.h0 = ncir
             /\ Len(last'.calls) = 1
             /\ last'.calls[1].fn = "NL5_GetLicense"
             /\ LET st == last'.calls[1].st IN
                /\ st < 0 => last'.exc = "NL5LicenseException"
                /\ st = 0 => (last'.exc = NoException /\ last'.ret = <<TRUE>>)
                /\ st > 0 => (last'.exc = NoException /\ last'.ret = <<FALSE>>)]_vars

C13_Witness ==
    /\ last.op = "get_license"
    /\ last.h0 = -1
    /\ last.calls[1].st = 2
    /\ last.ret = <<FALSE>>

\* C14: with a document open, delete_old_data raises NL5DeleteException when
\* NL5_DeleteOldData fails; delete_trace raises NL5TraceException when the
\* name resolves to no trace and NL5DeleteException when NL5_DeleteTrace fails
\* on a trace that resolved.
C14_DeleteErrors ==
    /\ (last.op = "delete_old_data" /\ document_was_open /\ last.calls[1].st < 0)
          => last.exc = "NL5DeleteException"
    /\ (last.op = "delete_trace" /\ document_was_open /\ last.calls[1].st < 0)
          => last.exc = "NL5TraceException"
    /\ (last.op = "delete_trace" /\ document_was_open /\ Len(last.calls) = 2
           /\ last.calls[2].st < 0)
          => last.exc = "NL5DeleteException"

\* The message of an exception, as the set of the variables its f-string
\* interpolates ('Parameter {name} not found ...' is {"name"}; a message
\* that is a plain literal is {}).  The raise statement is told by the
\* operation, the kind of the exception and, where an operation raises one
\* kind in two places, the number of foreign calls made before it.
message(op, exc, calls) ==
    CASE exc = "NL5ParamException" -> {"name"}
      [] exc = "NL5TraceException" ->
            IF op = "add_function_trace" THEN {"text"} ELSE {"name"}
      [] exc = "NL5SaveException" ->
            IF op = "save_as" THEN {"name"} ELSE {}
      [] exc = "NL5StartException" ->
            IF op \in {"simulate", "simulate_interval"} THEN {"interval"} ELSE {}
      [] exc = "NL5NotImplementedException" -> {"function"}
      [] exc = "NL5ValueException" ->
            CASE op \in {"get_value", "set_value", "get_text", "set_text",
                         "get_parameter_value", "set_parameter_value",
                         "get_parameter_text", "set_parameter_text",
                         "delete_trace", "set_input_value", "set_input_logical_value",
                         "get_output_value", "get_output_logical_value",
                         "get_data_size", "get_ac_data_size"} -> {"name"}
              [] op = "get_data" -> {"time"}
              [] op = "get_data_slice" -> {"t"}
              [] op \in {"get_timedata_vectors", "get_freqmagphase_vectors"} ->
                    IF Len(calls) = 2 THEN {"name"} ELSE {}
              [] OTHER -> {}
      [] OTHER -> {}

\* the operations that take the name of a trace
TraceOps ==
    {"add_voltage_trace", "add_current_trace", "add_power_trace",
     "add_variable_trace", "add_function_trace", "delete_trace", "get_data",
     "get_last_data", "get_data_at", "get_data_size", "get_ac_data_size",
     "get_ac_data_at", "get_data_slice", "get_timedata_vectors",
     "get_freqmagphase_vectors"}

\* the last public call raised because its last foreign call failed
raised_on_failure ==
    /\ last.exc \in NL5Exceptions
    /\ last.calls # <<>>
    /\ last.calls[Len(last.calls)].st < 0

\* C15: the message of every exception raised because an engine call failed
\* embeds the identifier the caller passed: the parameter name, the trace
\* name, or the file name of open, save_as, save_data and save_ac_data.
C15_MessageNamesIdentifier ==
    (raised_on_failure /\ last.op \in ParameterOps \cup TraceOps \cup FileOps)
        => message(last.op, last.exc, last.calls) \cap {"name", "text"} # {}

\* the last public call resolved its name: its first foreign call, made with
\* the document open, answered a handle
name_resolved == document_was_open /\ last.calls[1].st >= 0

\* C16: with a document open and a name that resolves to an input,
\* set_input_value(name, v) hands the caller's v to NL5_SetInputValue.
C16_InputValuePassed ==
    (last.op = "set_input_value" /\ name_resolved)
        => /\ Len(last.calls) = 2
           /\ last.calls[2].fn = "NL5_SetInputValue"
           /\ last.calls[2].args[3] = argv[2]

\* C17: with a document open and a name that resolves to an input,
\* set_input_logical_value(name, v) calls NL5_SetInputLogicalValue with 0 for
\* False and with a non-zero integer for True, and returns normally when the
\* status is not negative.
C17_InputLogicalValuePassed ==
    (last.op = "set_input_logical_value" /\ name_resolved)
        => /\ Len(last.calls) = 2
           /\ last.calls[2].fn = "NL5_SetInputLogicalValue"
           /\ (last.calls[2].args[3] = 0) = (argv[2] = FALSE)
           /\ last.calls[2].st >= 0 => last.exc = NoException

\* C18: with a document open and a name that resolves to an output,
\* get_output_logical_value(name) calls NL5_GetOutputLogicalValue, returns
\* False for the level 0 and True for a non-zero level, and raises
\* NL5ValueException only when the status is negative.
C18_OutputLogicalValueRead ==
    (last.op = "get_output_logical_value" /\ name_resolved)
        => /\ Len(last.calls) = 2
           /\ last.calls[2].fn = "NL5_GetOutputLogicalValue"
           /\ IF last.calls[2].st < 0
              THEN last.exc = "NL5ValueException"
              ELSE /\ last.exc = NoException
                   /\ last.ret = << last.calls[2].out[1] # 0 >>

\* C19: get_trace and get_ac_trace raise NL5NotImplementedException on every
\* call, with or without a document, make no foreign call and leave the
\* client's handle and the documents as they are.
C19_NotImplemented ==
    [][last'.op \in {"get_trace", "get_ac_trace"}
          => /\ last'.exc = "NL5NotImplementedException"
             /\ last'.calls = <<>>
             /\ last'.ret = <<>>
             /\ ncir' = ncir
             /\ docs' = docs]_vars

C19_Witness ==
    /\ last.op = "get_trace"
    /\ ncir \in DOMAIN docs
    /\ argv = <<TraceName>>
    /\ last.exc = "NL5NotImplementedException"

\* C20: when a public operation raises because a foreign call answered a
\* negative status, that call is the last foreign call it made, so a
\* get_error() called next returns the engine's error of that failure;
\* get_error() and get_info() make their one foreign call with or without a
\* document and leave the client's handle and the documents as they are.
C20_ErrorOfLastFailure ==
    [][/\ (last.exc \in NL5Exceptions /\ last.calls # <<>>)
            => /\ last.calls[Len(last.calls)].st < 0
               /\ last'.op = "get_error"
                    => last'.ret = << last.calls[Len(last.calls)].fn >>
       /\ last'.op \in {"get_error", "get_info"}
            => /\ last'.exc = NoException
               /\ Len(last'.calls) = 1
               /\ ncir' = ncir
               /\ docs' = docs]_vars

C20_Witness ==
    /\ last.op = "get_error"
    /\ last.exc = NoException
    /\ last.ret = <<"NL5_SaveData">>

\* C21: in a sweep of set_value('R1.R', r); simulate(T); get_data('V(out)', t)
\* on an open document, with or without start() before simulate, nothing is
\* raised unless the engine refuses a call, a get_data with 0 <= t <= T that
\* follows a simulate(T) returns the value of the trace at t, and none of
\* these operations changes the handle.
C21_Sweep ==
    [][/\ (last'.op \in {"set_value", "start", "simulate", "get_data"})
            => ncir' = ncir
       /\ (/\ last'.op \in {"set_value", "start", "simulate"}
           /\ (last'.op = "set_value" => argv'[1] = ParamName)
           /\ last'.calls # <<>>
           /\ last'.calls[1].st >= 0)
            => last'.exc = NoException
       /\ (/\ last.op = "simulate"
           /\ last.exc = NoException
           /\ document_was_open
           /\ last'.op = "get_data"
           /\ argv'[1] = TraceName
           /\ 0 <= argv'[2]
           /\ argv'[2] <= argv[1])
            => /\ last'.exc = NoException
               /\ last'.ret = << wave(argv'[2]) >>]_vars

C21_Witness ==
    /\ last.op = "get_data"
    /\ document_was_open
    /\ argv = <<TraceName, MaxClock>>
    /\ last.exc = NoException
    /\ last.ret = << wave(MaxClock) >>
    /\ docs[last.h0].val = 0 - MaxValue

\* the entry point that resolves the name an operation is given
Resolver(op) ==
    CASE op \in {"get_parameter_value", "set_parameter_value", "get_parameter_text",
                 "set_parameter_text"} -> "NL5_GetParam"
      [] op \in {"delete_trace", "get_data", "get_last_data", "get_data_at",
                 "get_data_size", "get_data_slice", "get_timedata_vectors"} -> "NL5_GetTrace"
      [] op \in {"get_ac_data_size", "get_ac_data_at",
                 "get_freqmagphase_vectors"} -> "NL5_GetACTrace"
      [] op \in {"set_input_value", "set_input_logical_value"} -> "NL5_GetInput"
      [] op \in {"get_output_value", "get_output_logical_value"} -> "NL5_GetOutput"

Resolvers == {"NL5_GetParam", "NL5_GetTrace", "NL5_GetACTrace", "NL5_GetInput", "NL5_GetOutput"}

\* C22: every call of a parameter, trace or AC-trace operation made with a
\* handle >= 0 resolves the name afresh: its first foreign call is the
\* resolving entry point, with the client's handle and the caller's name, and
\* no later call of the operation resolves again.
C22_ResolvedOnEveryCall ==
    (/\ last.op \in {"get_parameter_value", "set_parameter_value", "get_parameter_text",
                      "set_parameter_text", "delete_trace", "get_data", "get_last_data",
                      "get_data_at", "get_data_size", "get_ac_data_size", "get_ac_data_at"}
     /\ last.h0 >= 0)
        => /\ last.calls # <<>>
           /\ last.calls[1].fn = Resolver(last.op)
           /\ last.calls[1].args = <<last.h0, argv[1]>>
           /\ \A i \in 2..Len(last.calls) : last.calls[i].fn \notin Resolvers

C22_Witness ==
    /\ last.op = "get_data_size"
    /\ document_was_open
    /\ argv = <<TraceName>>
    /\ last.calls[1].fn = "NL5_GetTrace"
    /\ last.exc = "NL5TraceException"

\* the operations that resolve a name and then make one more foreign call
TwoStepOps ==
    {"get_parameter_value", "set_parameter_value", "get_parameter_text",
     "set_parameter_text", "delete_trace", "set_input_value",
     "set_input_logical_value", "get_output_value", "get_output_logical_value",
     "get_data", "get_last_data", "get_data_at", "get_data_size",
     "get_ac_data_size", "get_ac_data_at"}

\* C23: in a two-step operation made with a handle >= 0, a name that does not
\* resolve raises NL5ParamException (parameter operations) or
\* NL5TraceException (trace, AC-trace, input and output operations) and the
\* second call is not made; a negative status of the second call raises
\* NL5ValueException; transient operations resolve through NL5_GetTrace and
\* AC operations through NL5_GetACTrace.
C23_TwoStepErrors ==
    (last.op \in TwoStepOps /\ last.h0 >= 0)
        => /\ Len(last.calls) \in {1, 2}
           /\ last.calls[1].fn = Resolver(last.op)
           /\ last.calls[1].st < 0
                => /\ Len(last.calls) = 1
                   /\ last.exc = IF Resolver(last.op) = "NL5_GetParam"
                                 THEN "NL5ParamException" ELSE "NL5TraceException"
           /\ (Len(last.calls) = 2 /\ last.calls[2].st < 0)
                => last.exc = "NL5ValueException"

C23_Witness ==
    /\ last.op = "get_ac_data_at"
    /\ document_was_open
    /\ Len(last.calls) = 2
    /\ last.calls[1].fn = "NL5_GetACTrace"
    /\ last.calls[2].st < 0
    /\ last.exc = "NL5ValueException"

\* the bulk operations and the entry point each one reads a sample with
BulkOps == {"get_timedata_vectors", "get_freqmagphase_vectors"}
SampleCall(op) ==
    IF op = "get_timedata_vectors" THEN "NL5_GetDataAt" ELSE "NL5_GetACDataAt"
SampleOp(op) ==
    IF op = "get_timedata_vectors" THEN "get_data_at" ELSE "get_ac_data_at"

\* what a bulk operation that returned has done: after the resolving call and
\* the size call, one sample call per index 0 .. size-1 in increasing order,
\* and vectors of length size that hold what these calls gave
extracted(l) ==
    LET size == l.calls[2].st IN
    /\ Len(l.calls) = 2 + size
    /\ \A k \in 1..Len(l.ret) :
          /\ Len(l.ret[k]) = size
          /\ \A i \in 1..size :
                /\ l.calls[2 + i].fn = SampleCall(l.op)
                /\ l.calls[2 + i].args = <<l.h0, l.calls[1].st, i - 1>>
                /\ l.ret[k][i] = l.calls[2 + i].out[k]

\* C24: get_timedata_vectors(name) returns two sequences of length size, read
\* by NL5_GetDataAt for i = 0 .. size-1 in increasing order, whose i-th
\* elements are what get_data_at(name, i) returns; get_freqmagphase_vectors
\* (name, log=False) relates in the same way to get_ac_data_at; for size 0
\* both return empty sequences without a data call.
C24_BulkAgrees ==
    [][/\ (/\ last'.op \in BulkOps
           /\ last'.exc = NoException
           /\ last'.op = "get_freqmagphase_vectors" => ~argv'[2])
            => /\ Len(last'.ret) = (IF last'.op = "get_timedata_vectors" THEN 2 ELSE 3)
               /\ extracted(last')
       /\ (/\ last.op \in BulkOps
           /\ last.exc = NoException
           /\ last.op = "get_freqmagphase_vectors" => ~argv[2]
           /\ last'.op = SampleOp(last.op)
           /\ argv'[1] = argv[1]
           /\ argv'[2].wraps = 0
           /\ 0 <= argv'[2].low
           /\ argv'[2].low < last.calls[2].st)
            => /\ last'.exc = NoException
               /\ last'.ret = [k \in 1..Len(last.ret) |-> last.ret[k][argv'[2].low + 1]]]_vars

C24_Witness ==
    /\ last.op = "get_timedata_vectors"
    /\ document_was_open
    /\ last.exc = NoException
    /\ Len(last.calls) = 4
    /\ last.ret = << <<0, 1>>, <<wave(0), wave(1)>> >>

\* the operations that read a trace sample by sample
LoopOps == {"get_data_slice", "get_timedata_vectors", "get_freqmagphase_vectors"}

\* C25: no operation calls a foreign entry point again after that entry point
\* returned a negative status; in get_data_slice, get_timedata_vectors and
\* get_freqmagphase_vectors the first negative status after the resolving call
\* raises NL5ValueException, is the last foreign call of the operation, and
\* nothing is returned.
C25_NoRetryNoPartial ==
    /\ \A i \in 1..Len(last.calls) :
          last.calls[i].st < 0
            => \A j \in (i + 1)..Len(last.calls) : last.calls[j].fn # last.calls[i].fn
    /\ last.op \in LoopOps
         => \A i \in 2..Len(last.calls) :
               last.calls[i].st < 0
                 => /\ i = Len(last.calls)
                    /\ last.exc = "NL5ValueException"
                    /\ last.ret = <<>>

C25_Witness ==
    /\ last.op = "get_data_slice"
    /\ document_was_open
    /\ Len(last.calls) >= 3
    /\ last.calls[2].st >= 0
    /\ last.calls[Len(last.calls)].st < 0
    /\ last.exc = "NL5ValueException"
    /\ last.ret = <<>>

\* C26: get_data_slice(name, t_start, t_end, t_step) with t_step > 0 and a
\* name that resolves makes its calls of NL5_GetData at the times
\* t_start + i*t_step, i = 0 .. N-1 with N = trunc((t_end - t_start)/t_step) + 1,
\* each time lies in t_start .. t_end and is the time passed to the engine;
\* when t_end < t_start no sample is taken and an empty result is returned.
C26_SliceInRange ==
    (/\ last.op = "get_data_slice"
     /\ last.h0 >= 0
     /\ last.calls[1].st >= 0
     /\ argv[4] > 0)
        => LET t_start == argv[2]
               t_end == argv[3]
               t_step == argv[4]
               N == trunc_div(t_end - t_start, t_step) + 1
           IN  /\ \A k \in 2..Len(last.calls) :
                     LET t == t_start + (k - 2) * t_step IN
                     /\ last.calls[k].fn = "NL5_GetData"
                     /\ t_start <= t /\ t <= t_end
                     /\ last.calls[k].args[3] = t
               /\ last.exc = NoException => Len(last.calls) = 1 + N
               /\ t_end < t_start
                    => /\ Len(last.calls) = 1
                       /\ last.exc = NoException
                       /\ last.ret = << <<>> >>

\* C27: when NL5_Open returns a negative value, open() raises NL5OpenException
\* and the handle is -1 afterwards, also when a document was open before the
\* call (it has been closed and is not open any more); when NL5_Open returns
\* ncir >= 0 the handle is ncir afterwards.
C27_FailedOpen ==
    last.op = "open"
        => LET o == last.calls[Len(last.calls)] IN
           /\ o.fn = "NL5_Open"
           /\ IF o.st < 0
              THEN /\ last.exc = "NL5OpenException"
                   /\ ncir = 0 - 1
                   /\ last.h0 \notin DOMAIN docs
              ELSE /\ last.exc = NoException
                   /\ ncir = o.st

C27_Witness ==
    /\ last.op = "open"
    /\ document_was_open
    /\ Len(last.calls) = 2
    /\ last.calls[1].fn = "NL5_Close"
    /\ last.calls[2].st < 0
    /\ last.exc = "NL5OpenException"
    /\ ncir = 0 - 1
    /\ docs = [h \in {} |-> NewDoc]

\* C28: the handle is -1 or the value the most recent successful NL5_Open
\* returned: open() leaves the value NL5_Open returned, or -1 when that value
\* is negative; close() leaves the handle as it was or -1; every other
\* operation, whether it returns or raises, leaves the handle as it was.
C28_HandleFrame ==
    [][/\ last'.op = "open"
            => LET o == last'.calls[Len(last'.calls)] IN
               ncir' = IF o.st >= 0 THEN o.st ELSE 0 - 1
       /\ last'.op = "close" => ncir' \in {ncir, 0 - 1}
       /\ last'.op \notin {"open", "close"} => ncir' = ncir
       /\ ncir' >= 0 - 1]_vars

C28_Witness ==
    /\ last.op = "get_value"
    /\ document_was_open
    /\ last.exc = "NL5ValueException"
    /\ ncir = last.h0
    /\ ncir \in DOMAIN docs

\* the operations that take the absolute value of their numeric argument
SignedOps == {"set_step", "set_timeout", "simulate", "simulate_interval", "get_data"}

\* C29: set_step, set_timeout, simulate, simulate_interval and get_data pass
\* the absolute value of their numeric argument: the step, timeout, interval
\* or sample time the engine receives from them is never negative.
C29_SignNormalized ==
    (last.op \in SignedOps /\ last.calls # <<>>)
        => LET c == last.calls[Len(last.calls)] IN
           c.fn \notin Resolvers => c.args[Len(c.args)] >= 0

\* C30: save() and save_as() with the handle -1 raise NL5OpenException without
\* a foreign call; with a handle >= 0 they call NL5_Save / NL5_SaveAs exactly
\* once with that handle and raise NL5SaveException iff the status is
\* negative; in every outcome the handle and the documents the engine holds
\* are the same after the call as before it.
C30_SaveKeepsDocument ==
    [][last'.op \in {"save", "save_as"}
        => /\ ncir' = ncir
           /\ docs' = docs
           /\ last'.h0 = ncir
           /\ IF ncir = 0 - 1
              THEN /\ last'.calls = <<>>
                   /\ last'.exc = "NL5OpenException"
              ELSE /\ Len(last'.calls) = 1
                   /\ last'.calls[1].fn = (IF last'.op = "save" THEN "NL5_Save"
                                                               ELSE "NL5_SaveAs")
                   /\ last'.calls[1].args[1] = ncir
                   /\ last'.exc = (IF last'.calls[1].st < 0 THEN "NL5SaveException"
                                                            ELSE NoException)]_vars

C30_Witness ==
    /\ last.op = "save_as"
    /\ document_was_open
    /\ Len(last.calls) = 1
    /\ last.calls[1].st >= 0
    /\ last.exc = NoException
    /\ ncir = last.h0
    /\ ncir \in DOMAIN docs

====
